---- MODULE Spec2Model ----
(***************************************************************************)
(* Mutation-reaction engine of the blog template: the article lifecycle    *)
(* hooks (slug fix + automatic translation), the explicit translate        *)
(* controller, the report lifecycle hooks (cover extraction) and the       *)
(* explicit extract-cover controller.                                      *)
(*                                                                         *)
(* Every request (an external create/update, an HTTP trigger, a            *)
(* setImmediate callback) is a task with a call stack of frames.  One      *)
(* action is the code that runs between two awaits of the top frame.  A    *)
(* storage write that fires a lifecycle event pushes the handler's frame   *)
(* on the writer's stack: the handler is awaited by the write, which is    *)
(* why the report hooks use setImmediate "to not block the response".      *)
(***************************************************************************)
EXTENDS Integers, Sequences, FiniteSets, TLC

VARIABLES
  articles,          \* article rows, indexed by numeric id
  activeOperations,  \* article lifecycles.js: Map key -> timestamp
  now,               \* Date.now()
  tasks,             \* call stack of every task started so far
  origin,            \* what started each task
  translateCalls,    \* translateService.translateArticle calls per task and target
  responses,         \* HTTP responses sent, per task
  deeplKey,          \* process.env.DEEPL_API_KEY is set
  nfail,             \* external failures injected so far
  leaked,            \* guard keys still registered when their run returned
  reports,           \* report rows, indexed by numeric id
  coverOperations,   \* report lifecycles.js: Map key -> timestamp
  uploads,           \* PNG assets uploaded to the media library so far
  tmpFiles,          \* tasks whose transient PNG file is on disk
  escaped,           \* failures that escaped an extraction run
  evicted,           \* report guard keys whose entry was dropped as older than the TTL
  probe,             \* the last call of a pure function: its name, arguments, result
  citations,         \* per documentId, the url entries of the article's reference blocks
  download           \* downloadFileToBuffer: the server, the url requested, the outcome

\* the state of the article pipeline and of the report pipeline
avars == <<articles, activeOperations, translateCalls, deeplKey, leaked>>
rvars == <<reports, coverOperations, uploads, tmpFiles, escaped, evicted>>

vars == <<articles, activeOperations, now, tasks, origin, translateCalls,
          responses, deeplKey, nfail, leaked, reports, coverOperations,
          uploads, tmpFiles, escaped, evicted, probe, citations, download>>

----------------------------------------------------------------------------
(* Bounds *)

MaxTicks == 1     \* clock advances per behaviour
MaxFail  == 1     \* injected failures per behaviour
MaxDepth == 10    \* call-stack frames per task
MaxRequests == 2  \* report writes and explicit extract-cover requests per behaviour

(* Program constants *)

ArticleTtlMs == 60000
ReportTtlMs  == 120000
StartMs      == 1000
TickMs       == ArticleTtlMs + 1
ReportTickMs == ReportTtlMs + 1

----------------------------------------------------------------------------
(* Values *)

Digit == <<"0", "1", "2", "3", "4", "5", "6", "7", "8", "9">>

RECURSIVE String(_)
String(n) == IF n < 10 THEN Digit[n + 1]
             ELSE String(n \div 10) \o Digit[(n % 10) + 1]

DocumentIds == {"docA"}
Locales     == {"en", "zh-Hant-HK", "fr"}
ZhPrefixed  == {"zh-Hant-HK", "zh-TW", "zh-HK", "zh"}
SlugInputs  == {"my-post"}
NoText      == <<>>
TitleInputs == {<<"Hello">>}

\* only the four tags that are compared by name
isListedZh(l) == l \in ZhPrefixed

\* sourceLocale.startsWith('zh')
StartsWithZh(l) == Len(l) >= 2 /\ SubSeq(l, 1, 2) = "zh"

----------------------------------------------------------------------------
(* Operation guard *)

MapSet(m, k, v) == [x \in DOMAIN m \cup {k} |-> IF x = k THEN v ELSE m[x]]
MapDelete(m, k) == [x \in DOMAIN m \ {k} |-> m[x]]

Expired(ts, t, ttl) == t - ts > ttl

\* a guard that never reports an operation as active
neverActive(reg, key, t, ttl) == FALSE

\* the boolean isOperationActive returns
isOperationActive(reg, key, t, ttl) ==
  /\ key \in DOMAIN reg
  /\ reg[key] # 0
  /\ ~Expired(reg[key], t, ttl)

\* the registry isOperationActive leaves behind
evict(reg, key, t, ttl) ==
  IF key \in DOMAIN reg /\ reg[key] # 0 /\ Expired(reg[key], t, ttl)
  THEN MapDelete(reg, key) ELSE reg

startOperation(reg, key, t) == MapSet(reg, key, t)

\* a release that leaves the entry in place
keepOperation(reg, key) == reg

endOperation(reg, key) == MapDelete(reg, key)

----------------------------------------------------------------------------
(* Article storage *)

\* a row whose description, cover text and blocks are not set
Row(id, doc, loc, slug, title) ==
  [id |-> id, documentId |-> doc, locale |-> loc, slug |-> slug, title |-> title,
   description |-> NoText, cover_text |-> NoText, blocks |-> <<>>]

WithFields(row, description, cover_text, blocks) ==
  [row EXCEPT !.description = description, !.cover_text = cover_text,
              !.blocks = blocks]

\* db.query('api::article.article').findOne({ where: { documentId, locale } })
FindVariant(arts, doc, loc) ==
  LET hits == {i \in 1..Len(arts) :
                 arts[i].documentId = doc /\ arts[i].locale = loc}
  IN IF hits = {} THEN 0 ELSE CHOOSE i \in hits : \A j \in hits : i <= j

\* the fixed source -> target table of triggerTranslation
TargetLocale(sourceLocale) ==
  IF sourceLocale = "en" THEN "zh-Hant-HK"
  ELSE IF sourceLocale \in {"zh-Hant-HK", "zh-TW", "zh-HK", "zh"}
          \/ StartsWithZh(sourceLocale) THEN "en"
  ELSE ""

\* the target locale as translateArticle of the controller determines it; ""
\* stands for the badRequest('Unsupported locale')
controllerTargetLocale(sourceLocale) ==
  IF sourceLocale = "en" THEN "zh-Hant-HK"
  ELSE IF StartsWithZh(sourceLocale) THEN "en"
  ELSE ""

\* a key check that passes whatever the environment holds
anyKey(key) == TRUE

\* const deeplKey = process.env.DEEPL_API_KEY; if (!deeplKey) return
hasDeeplKey(key) == key

\* strings: s.charAt(i - 1), s.toLowerCase(), s.includes(sub), s.startsWith(p)
Char(s, i) == SubSeq(s, i, i)

UpperCase == "ABCDEFGHIJKLMNOPQRSTUVWXYZ"
LowerCase == "abcdefghijklmnopqrstuvwxyz"

toLowerChar(c) ==
  IF \E i \in 1..Len(UpperCase) : Char(UpperCase, i) = c
  THEN Char(LowerCase, CHOOSE i \in 1..Len(UpperCase) : Char(UpperCase, i) = c)
  ELSE c

RECURSIVE toLowerCase(_)
toLowerCase(s) ==
  IF Len(s) = 0 THEN ""
  ELSE toLowerChar(Char(s, 1)) \o toLowerCase(SubSeq(s, 2, Len(s)))

includes(s, sub) ==
  \E i \in 1..(Len(s) - Len(sub) + 1) : SubSeq(s, i, i + Len(sub) - 1) = sub

startsWith(s, prefix) ==
  Len(s) >= Len(prefix) /\ SubSeq(s, 1, Len(prefix)) = prefix

\* translateText's lookup tables from locale tags to the provider's codes
localeMap ==
  [tag \in {"en", "EN", "en-US", "en-GB", "zh-TW", "zh-Hant-HK", "zh-HK", "zh",
            "zh-Hans"} |->
     IF tag = "en-GB" THEN "EN-GB"
     ELSE IF tag = "zh-Hans" THEN "ZH-HANS"
     ELSE IF tag \in {"en", "EN", "en-US"} THEN "EN-US"
     ELSE "ZH-HANT"]

sourceLocaleMap ==
  [tag \in DOMAIN localeMap |-> IF tag \in {"en", "EN", "en-US", "en-GB"} THEN "EN" ELSE "ZH"]

\* a lookup with no fallback: '' for a tag the table does not hold
tableOnly(targetLang) ==
  IF targetLang \in DOMAIN localeMap THEN localeMap[targetLang] ELSE ""

\* sourceLocaleMap[sourceLang] || (lower-case starts with 'zh' ? 'ZH' : 'EN')
SourceLangCode(sourceLang) ==
  IF sourceLang \in DOMAIN sourceLocaleMap THEN sourceLocaleMap[sourceLang]
  ELSE IF startsWith(toLowerCase(sourceLang), "zh") THEN "ZH" ELSE "EN"

\* translateText's target code: the table, else the prefix; then ZH-HANT is
\* forced for the Traditional Chinese tags and for every zh tag without
\* 'hans', and EN-US for 'en', 'EN' and 'en-US'
TargetLangCode(targetLang) ==
  LET chosen(low) ==
        IF targetLang \in {"en", "EN", "en-US"} THEN "EN-US"
        ELSE IF \/ targetLang \in {"zh-Hant-HK", "zh-TW", "zh-HK"}
                \/ startsWith(low, "zh") /\ ~includes(low, "hans")
        THEN "ZH-HANT"
        ELSE IF targetLang \in DOMAIN localeMap THEN localeMap[targetLang]
        ELSE IF startsWith(low, "zh") THEN "ZH-HANT" ELSE "EN-US"
  IN chosen(toLowerCase(targetLang))

----------------------------------------------------------------------------
(* The translate service.  A text is a sequence of characters; the provider's
   answer is the text followed by the target code.  A call of the service
   yields: threw (an Error was thrown), out (the value returned), calls (the
   provider calls made so far). *)

Space == " "

RECURSIVE trimStart(_)
trimStart(text) ==
  IF text # <<>> /\ Head(text) = Space THEN trimStart(Tail(text)) ELSE text

RECURSIVE trimEnd(_)
trimEnd(text) ==
  IF text # <<>> /\ text[Len(text)] = Space
  THEN trimEnd(SubSeq(text, 1, Len(text) - 1)) ELSE text

\* String.prototype.trim
trim(text) == trimEnd(trimStart(text))

\* a test that lets whitespace through
isEmpty(text) == text = NoText

\* !text || text.trim() === ''
isBlank(text) == text = NoText \/ trim(text) = <<>>

\* translator.translateText(text, sourceLangForApi, targetLangCode): result.text
deepl(text, targetLangCode) == Append(text, targetLangCode)

Returned(out, calls) == [threw |-> FALSE, out |-> out, calls |-> calls]
Threw(calls)         == [threw |-> TRUE, out |-> <<>>, calls |-> calls]

\* a translateText that answers a provider failure with the text it was given
textOnError(text, sourceLang, targetLang, key, ok) ==
  IF ~key THEN Threw(0)
  ELSE IF isBlank(text) THEN Returned(text, 0)
  ELSE Returned(IF ok THEN deepl(text, TargetLangCode(targetLang)) ELSE text, 1)

\* translateText(text, sourceLang, targetLang) with the key set or not and a
\* provider that answers (ok) or fails
translateText(text, sourceLang, targetLang, key, ok) ==
  IF ~key THEN Threw(0)
  ELSE IF isBlank(text) THEN Returned(text, 0)
  ELSE IF ok THEN Returned(deepl(text, TargetLangCode(targetLang)), 1)
  ELSE Threw(1)

RichText == "shared.rich-text"
Quote    == "shared.quote"
Media    == "shared.media"
Slider   == "shared.slider"
NoId     == 0

Block(component, id, title, body) ==
  [component |-> component, id |-> id, title |-> title, body |-> body]

\* a copy that keeps the id
sameBlock(block) == block

\* const translatedBlock = { ...block }; delete translatedBlock.id
withoutId(block) == [block EXCEPT !.id = NoId]

\* the body of translateBlocks' loop on one block, after calls provider calls,
\* the failAt-th of which fails (0: none)
translateBlock(block, sourceLocale, targetLocale, key, failAt, calls) ==
  LET translatedBlock == withoutId(block)
      call(text, n) ==
        [translateText(text, sourceLocale, targetLocale, key, n + 1 # failAt)
           EXCEPT !.calls = n + @]
      richText(body) ==
        [body EXCEPT !.out = IF body.threw THEN <<>>
                             ELSE [translatedBlock EXCEPT !.body = body.out]]
      quote(title, body) ==
        [body EXCEPT !.out = IF body.threw THEN <<>>
                             ELSE [translatedBlock EXCEPT !.title = title.out,
                                                          !.body = body.out]]
      quoteBody(title) ==
        quote(title, IF title.threw THEN title
                     ELSE IF block.body # NoText THEN call(block.body, title.calls)
                     ELSE Returned(block.body, title.calls))
  IN IF block.component = RichText /\ block.body # NoText
     THEN richText(call(block.body, calls))
     ELSE IF block.component = Quote
     THEN quoteBody(IF block.title # NoText THEN call(block.title, calls)
                    ELSE Returned(block.title, calls))
     ELSE Returned(translatedBlock, calls)

RECURSIVE translateBlocksFrom(_, _, _, _, _, _, _)
translateBlocksFrom(blocks, i, translatedBlocks, sourceLocale, targetLocale, key, failAt) ==
  IF i > Len(blocks) THEN translatedBlocks
  ELSE LET push(r) ==
             IF r.threw THEN Threw(r.calls)
             ELSE translateBlocksFrom(blocks, i + 1,
                    Returned(Append(translatedBlocks.out, r.out), r.calls),
                    sourceLocale, targetLocale, key, failAt)
       IN push(translateBlock(blocks[i], sourceLocale, targetLocale, key, failAt,
                              translatedBlocks.calls))

\* translateBlocks(blocks, sourceLocale, targetLocale), after calls provider calls
translateBlocks(blocks, sourceLocale, targetLocale, key, failAt, calls) ==
  translateBlocksFrom(blocks, 1, Returned(<<>>, calls), sourceLocale, targetLocale,
                      key, failAt)

NoFields == [description |-> NoText, cover_text |-> NoText, blocks |-> <<>>]

\* translateArticle(article, sourceLocale, targetLocale): the translated data
\* (a field that is not set is NoText), or the Error of the first call that fails
translateArticle(article, sourceLocale, targetLocale, key, failAt) ==
  LET field(before, text) ==
        IF before.threw THEN before
        ELSE IF text = NoText THEN Returned(NoText, before.calls)
        ELSE [translateText(text, sourceLocale, targetLocale, key,
                            before.calls + 1 # failAt)
                EXCEPT !.calls = before.calls + @]
      translatedData(title, description, cover_text, blocks) ==
        IF blocks.threw THEN Threw(blocks.calls)
        ELSE Returned([title |-> title.out, description |-> description.out,
                       cover_text |-> cover_text.out, blocks |-> blocks.out],
                      blocks.calls)
      thenBlocks(title, description, cover_text) ==
        translatedData(title, description, cover_text,
                       IF cover_text.threw THEN cover_text
                       ELSE IF Len(article.blocks) > 0
                       THEN translateBlocks(article.blocks, sourceLocale, targetLocale,
                                            key, failAt, cover_text.calls)
                       ELSE Returned(<<>>, cover_text.calls))
      thenCoverText(title, description) ==
        thenBlocks(title, description, field(description, article.cover_text))
      thenDescription(title) ==
        thenCoverText(title, field(title, article.description))
  IN thenDescription(field(Returned(NoText, 0), article.title))

\* the translation of one text by a provider that answers
Translated(text, targetLocale) ==
  translateText(text, "", targetLocale, TRUE, TRUE).out

\* a write that leaves the slug empty
noSlug(id) == ""

\* data: { slug: String(existingTarget.id) }, { slug: String(newArticle.id) }
slugData(id) == String(id)

\* a write that inserts a row whether or not the locale exists
documentsInsert(arts, doc, loc, text) ==
  [arts |-> Append(arts, Row(Len(arts) + 1, doc, loc, "", text)),
   id |-> Len(arts) + 1, created |-> TRUE]

\* strapi.documents('api::article.article').update({ documentId, locale, data })
\* on a locale that may not exist yet: the locale's row is updated, or created
documentsUpdate(arts, doc, loc, text) ==
  LET hit == FindVariant(arts, doc, loc)
  IN IF hit # 0
     THEN [arts |-> [arts EXCEPT ![hit].title = text], id |-> hit, created |-> FALSE]
     ELSE [arts |-> Append(arts, Row(Len(arts) + 1, doc, loc, "", text)),
           id |-> Len(arts) + 1, created |-> TRUE]

----------------------------------------------------------------------------
(* Tasks and frames *)

Frame(fn, pc, id, slug) ==
  [fn |-> fn, pc |-> pc, id |-> id, slug |-> slug,
   src |-> "", tgt |-> "", doc |-> "", text |-> NoText, tid |-> 0,
   file |-> 0, cover |-> 0, asset |-> 0, at |-> 0, by |-> "",
   urls |-> <<>>, j |-> 0, updatedCount |-> 0, errorCount |-> 0,
   updates |-> 0, data |-> NoFields]

\* the title is in text, the other translatable fields of a loaded article and,
\* after the translation, of translatedData are in data
Fields(row) ==
  [description |-> row.description, cover_text |-> row.cover_text,
   blocks |-> row.blocks]

fullArticle(f) ==
  [title |-> f.text, description |-> f.data.description,
   cover_text |-> f.data.cover_text, blocks |-> f.data.blocks]

\* frame f with translatedData in place of fullArticle
WithData(f, translatedData) ==
  [f EXCEPT !.text = translatedData.title, !.data = Fields(translatedData)]

DescriptionMax == 80

\* a description that is written as it comes from the provider
untruncated(description) == description

\* if (description.length > 80) description = description.substring(0, 77) + '...'
truncated(description) ==
  IF Len(description) > DescriptionMax
  THEN SubSeq(description, 1, DescriptionMax - 3) \o <<".", ".", ".">>
  ELSE description

\* db.query.update({ where: { id }, data: { title, description, cover_text, slug } });
\* an attribute whose value is undefined is not written
updateData(row, f, slug) ==
  [row EXCEPT !.title = f.text,
              !.description = IF f.data.description = NoText THEN @
                              ELSE f.data.description,
              !.cover_text = IF f.data.cover_text = NoText THEN @
                             ELSE f.data.cover_text,
              !.slug = slug]

\* data: { title, description: description || '', cover_text: cover_text || '',
\*         blocks: blocks || [], ... } of the documents().update call
createData(row, f) ==
  WithFields([row EXCEPT !.title = f.text],
             f.data.description, f.data.cover_text, f.data.blocks)

\* articles without reference blocks
NoCitations == [d \in DocumentIds |-> <<>>]

\* no download has been started
NoDownload == [server |-> <<>>, url |-> "", redirects |-> 0, state |-> ""]

\* no pure function has been called
NoProbe == [fn |-> "", arg |-> <<>>, out |-> <<>>]

NoCalls == [tgt \in {"en", "zh-Hant-HK"} |-> 0]

Handlers == {"afterCreate", "afterUpdate"}

Running(t) == t \in 1..Len(tasks) /\ tasks[t] # <<>>
Top(t)     == tasks[t][Len(tasks[t])]
At(t, fns, pc) == Running(t) /\ Top(t).fn \in fns /\ Top(t).pc = pc

WithTop(st, f) == [st EXCEPT ![Len(st)] = f]
Pop(st)        == SubSeq(st, 1, Len(st) - 1)

\* the write returns to pc after the lifecycle handler it fires has returned
FireEvent(st, f, pc, fn, row) ==
  Append(WithTop(st, [f EXCEPT !.pc = pc]), Frame(fn, "entry", row.id, row.slug))

CanPush(t) == Len(tasks[t]) < MaxDepth
CanFail    == nfail < MaxFail

operationKey(f) ==
  (IF f.fn = "afterCreate" THEN "create-" ELSE "update-") \o String(f.id)

translationKey(id, targetLocale) ==
  "translate-" \o String(id) \o "-to-" \o targetLocale

reverseKey(sourceLocale, documentId) ==
  "translate-from-" \o sourceLocale \o "-doc-" \o documentId

----------------------------------------------------------------------------
(* The triggering surface: external creates and updates of article variants *)

ExternalCreate(doc, loc, slug, title) ==
  /\ FindVariant(articles, doc, loc) = 0
  /\ LET id == Len(articles) + 1 IN
       /\ articles' = Append(articles, Row(id, doc, loc, slug, title))
       /\ tasks' = Append(tasks, <<Frame("afterCreate", "entry", id, slug)>>)
       /\ origin' = Append(origin, [kind |-> "create", id |-> id])
       /\ responses' = Append(responses, <<>>)
  /\ translateCalls' = Append(translateCalls, NoCalls)
  /\ UNCHANGED <<download, citations, probe, rvars, activeOperations, now, deeplKey, nfail, leaked>>

ExternalUpdate(id, slug, title) ==
  /\ id \in 1..Len(articles)
  /\ articles' = [articles EXCEPT ![id].slug = slug, ![id].title = title]
  /\ tasks' = Append(tasks, <<Frame("afterUpdate", "entry", id, slug)>>)
  /\ origin' = Append(origin, [kind |-> "update", id |-> id])
  /\ responses' = Append(responses, <<>>)
  /\ translateCalls' = Append(translateCalls, NoCalls)
  /\ UNCHANGED <<download, citations, probe, rvars, activeOperations, now, deeplKey, nfail, leaked>>

\* an await outlasts the TTL; with an empty registry no code observes the clock
Tick ==
  /\ now < StartMs + MaxTicks * TickMs
  /\ DOMAIN activeOperations # {}
  /\ now' = now + TickMs
  /\ UNCHANGED <<download, citations, probe, rvars, articles, activeOperations, tasks, origin, translateCalls,
                 responses, deeplKey, nfail, leaked>>

----------------------------------------------------------------------------
(* afterCreate / afterUpdate of the article lifecycles.  An action is the   *)
(* completion of one awaited call together with the synchronous code that   *)
(* follows it, up to the next await.                                        *)

\* lines 43-69 / 90-116: the guard on create-<id> / update-<id>, then either the
\* slug write is issued or triggerTranslation(result) is called
HandlerEntry(t) ==
  /\ At(t, Handlers, "entry")
  /\ LET f == Top(t)
         key == operationKey(f)
         reg == evict(activeOperations, key, now, ArticleTtlMs)
     IN IF f.id = 0 \/ isOperationActive(activeOperations, key, now, ArticleTtlMs)
        THEN /\ tasks' = [tasks EXCEPT ![t] = Pop(@)]
             /\ activeOperations' = reg
        ELSE /\ activeOperations' = startOperation(reg, key, now)
             /\ tasks' = [tasks EXCEPT ![t] =
                  IF f.slug # String(f.id)
                  THEN WithTop(@, [f EXCEPT !.pc = "slug"])
                  ELSE Append(WithTop(@, [f EXCEPT !.pc = "finally"]),
                              Frame("triggerTranslation", "find", f.id, ""))]
  /\ UNCHANGED <<download, citations, probe, rvars, articles, now, origin, translateCalls, responses, deeplKey, nfail, leaked>>

\* Step 1: await db.query.update({ where: { id }, data: { slug: articleId } });
\* when it throws: catch, finally { endOperation(operationKey) }
HandlerSlug(t) ==
  /\ At(t, Handlers, "slug")
  /\ LET f == Top(t) IN
       \/ /\ CanPush(t)
          /\ articles' = [articles EXCEPT ![f.id].slug = String(f.id)]
          /\ tasks' = [tasks EXCEPT ![t] =
                         FireEvent(@, f, "trigger", "afterUpdate", articles'[f.id])]
          /\ UNCHANGED <<nfail, activeOperations>>
       \/ /\ CanFail
          /\ nfail' = nfail + 1
          /\ activeOperations' = endOperation(activeOperations, operationKey(f))
          /\ tasks' = [tasks EXCEPT ![t] = Pop(@)]
          /\ UNCHANGED articles
  /\ UNCHANGED <<download, citations, probe, rvars, now, origin, translateCalls, responses, deeplKey, leaked>>

\* Step 2, once the slug write has returned: await triggerTranslation(result)
HandlerTrigger(t) ==
  /\ At(t, Handlers, "trigger")
  /\ CanPush(t)
  /\ tasks' = [tasks EXCEPT ![t] =
        Append(WithTop(@, [Top(t) EXCEPT !.pc = "finally"]),
               Frame("triggerTranslation", "find", Top(t).id, ""))]
  /\ UNCHANGED <<download, citations, probe, rvars, articles, activeOperations, now, origin, translateCalls,
                 responses, deeplKey, nfail, leaked>>

----------------------------------------------------------------------------
(* triggerTranslation(article) of the article lifecycles *)

TT == {"triggerTranslation"}

\* keys a returning run started and left in the registry
Leak(started, reg) == leaked \cup (started \cap DOMAIN reg)

\* the handler that awaits triggerTranslation
Caller(t) == tasks[t][Len(tasks[t]) - 1]

\* triggerTranslation returns with registry reg; its caller's
\* finally { endOperation(operationKey) } runs and the handler returns
TTReturn(t, reg) ==
  /\ tasks' = [tasks EXCEPT ![t] = Pop(Pop(@))]
  /\ activeOperations' = endOperation(reg, operationKey(Caller(t)))

TTGoto(t, f, pc) == tasks' = [tasks EXCEPT ![t] = WithTop(@, [f EXCEPT !.pc = pc])]

\* lines 323-326: finally { endOperation(translationKey); endOperation(reverseKey) }
\* and the return
TTExit(t) ==
  LET f   == Top(t)
      tk  == translationKey(f.id, f.tgt)
      rk  == reverseKey(f.src, f.doc)
      reg == endOperation(endOperation(activeOperations, tk), rk)
  IN /\ leaked' = Leak({tk, rk}, reg)
     /\ TTReturn(t, reg)

\* an awaited call inside the inner try throws: finally, then the outer catch
TTThrow(t, pc) ==
  /\ At(t, TT, pc)
  /\ CanFail
  /\ nfail' = nfail + 1
  /\ TTExit(t)
  /\ UNCHANGED <<download, citations, probe, rvars, articles, now, origin, translateCalls, responses, deeplKey>>

\* lines 134-205: fresh read, target locale, both guard checks, both starts
TTFind(t) ==
  /\ At(t, TT, "find")
  /\ LET f    == Top(t)
         row  == articles[f.id]
         src  == row.locale
         doc  == row.documentId
         tgt  == TargetLocale(src)
         tk   == translationKey(f.id, tgt)
         rk   == reverseKey(src, doc)
         reg1 == evict(activeOperations, tk, now, ArticleTtlMs)
         reg2 == evict(reg1, rk, now, ArticleTtlMs)
         reg3 == startOperation(reg2, rk, now)
         reg4 == startOperation(reg3, tk, now)
         done == endOperation(endOperation(reg4, tk), rk)
     IN
       \/ \* the read throws: outer catch
          /\ CanFail
          /\ nfail' = nfail + 1
          /\ TTReturn(t, activeOperations)
          /\ UNCHANGED leaked
       \/ \* strapi.service('api::translate.translate') is missing
          /\ CanFail
          /\ src # "" /\ doc # "" /\ tgt # "" /\ deeplKey
          /\ ~isOperationActive(activeOperations, tk, now, ArticleTtlMs)
          /\ ~isOperationActive(reg1, rk, now, ArticleTtlMs)
          /\ nfail' = nfail + 1
          /\ TTReturn(t, done)
          /\ leaked' = Leak({tk, rk}, done)
       \/ /\ UNCHANGED nfail
          /\ IF src = "" \/ doc = "" \/ tgt = ""
             THEN TTReturn(t, activeOperations) /\ UNCHANGED leaked
             ELSE IF isOperationActive(activeOperations, tk, now, ArticleTtlMs)
             THEN TTReturn(t, reg1) /\ UNCHANGED leaked
             ELSE IF isOperationActive(reg1, rk, now, ArticleTtlMs)
             THEN TTReturn(t, reg2) /\ UNCHANGED leaked
             ELSE IF ~hasDeeplKey(deeplKey)
             THEN TTReturn(t, reg3) /\ leaked' = Leak({rk}, reg3)
             ELSE /\ activeOperations' = reg4
                  /\ TTGoto(t, [f EXCEPT !.src = src, !.tgt = tgt, !.doc = doc], "load")
                  /\ UNCHANGED leaked
  /\ UNCHANGED <<download, citations, probe, rvars, articles, now, origin, translateCalls, responses, deeplKey>>

\* lines 210-227: entityService.findOne(article.id, { populate, locale })
TTLoad(t) ==
  \/ TTThrow(t, "load")
  \/ /\ At(t, TT, "load")
     /\ TTGoto(t, [Top(t) EXCEPT !.text = articles[Top(t).id].title,
                                 !.data = Fields(articles[Top(t).id])], "translate")
     /\ UNCHANGED <<download, citations, probe, rvars, articles, activeOperations, now, origin, translateCalls,
                    responses, deeplKey, nfail, leaked>>

\* the provider calls translateArticle makes on the article of frame f when
\* none fails; the failAt-th call of a run may fail
ProviderCalls(f) ==
  translateArticle(fullArticle(f), f.src, f.tgt, deeplKey, 0).calls

\* one more call of task t into the target locale of frame f
Called(t, f) == [translateCalls EXCEPT ![t][f.tgt] = @ + 1]

\* lines 231-246: translateService.translateArticle(fullArticle, source, target)
TTTranslate(t) ==
  /\ At(t, TT, "translate")
  /\ translateCalls' = Called(t, Top(t))
  /\ LET f == Top(t) IN
       \E failAt \in 0..ProviderCalls(f) :
         LET translated(r) ==
               IF r.threw
               THEN /\ CanFail
                    /\ nfail' = nfail + 1
                    /\ TTExit(t)
               ELSE /\ UNCHANGED nfail
                    /\ IF r.out.title = NoText
                       THEN TTExit(t)
                       ELSE /\ TTGoto(t, WithData(f, r.out), "existing")
                            /\ UNCHANGED <<activeOperations, leaked>>
         IN translated(translateArticle(fullArticle(f), f.src, f.tgt, deeplKey, failAt))
  /\ UNCHANGED <<download, citations, probe, rvars, articles, now, origin, responses, deeplKey>>

\* lines 248-254: findOne({ where: { documentId, locale: targetLocale } })
TTExisting(t) ==
  \/ TTThrow(t, "existing")
  \/ /\ At(t, TT, "existing")
     /\ TTGoto(t, [Top(t) EXCEPT !.tid = FindVariant(articles, Top(t).doc, Top(t).tgt)],
               "write")
     /\ UNCHANGED <<download, citations, probe, rvars, articles, activeOperations, now, origin, translateCalls,
                    responses, deeplKey, nfail, leaked>>

\* lines 256-297: update the existing target, or create the target locale
TTWrite(t) ==
  \/ TTThrow(t, "write")
  \/ /\ At(t, TT, "write")
     /\ CanPush(t)
     /\ LET f == Top(t) IN
          IF f.tid # 0
          THEN /\ articles' = [articles EXCEPT
                                 ![f.tid] = updateData(@, f, slugData(f.tid))]
               /\ tasks' = [tasks EXCEPT ![t] =
                     FireEvent(@, f, "finally", "afterUpdate", articles'[f.tid])]
          ELSE LET r == documentsUpdate(articles, f.doc, f.tgt, f.text) IN
               /\ articles' = [r.arts EXCEPT ![r.id] = createData(@, f)]
               /\ \E hasId \in BOOLEAN :
                    tasks' = [tasks EXCEPT ![t] =
                      FireEvent(@, [f EXCEPT !.tid = IF hasId THEN r.id ELSE 0],
                                IF hasId THEN "slug" ELSE "requery",
                                IF r.created THEN "afterCreate" ELSE "afterUpdate",
                                r.arts[r.id])]
     /\ UNCHANGED <<download, citations, probe, rvars, activeOperations, now, origin, translateCalls, responses,
                    deeplKey, nfail, leaked>>

\* lines 306-311: newArticle has no id, query for the created article
TTRequery(t) ==
  \/ TTThrow(t, "requery")
  \/ /\ At(t, TT, "requery")
     /\ LET hit == FindVariant(articles, Top(t).doc, Top(t).tgt) IN
          IF hit # 0
          THEN /\ TTGoto(t, [Top(t) EXCEPT !.tid = hit], "slug")
               /\ UNCHANGED <<activeOperations, leaked>>
          ELSE TTExit(t)
     /\ UNCHANGED <<download, citations, probe, rvars, articles, now, origin, translateCalls, responses, deeplKey, nfail>>

\* lines 300-305, 312-316: second write, slug of the new target := its own id
TTSlug(t) ==
  \/ TTThrow(t, "slug")
  \/ /\ At(t, TT, "slug")
     /\ CanPush(t)
     /\ LET f == Top(t) IN
          /\ articles' = [articles EXCEPT ![f.tid].slug = slugData(f.tid)]
          /\ tasks' = [tasks EXCEPT ![t] =
                FireEvent(@, f, "finally", "afterUpdate", articles'[f.tid])]
     /\ UNCHANGED <<download, citations, probe, rvars, activeOperations, now, origin, translateCalls, responses,
                    deeplKey, nfail, leaked>>

\* the last write has returned: the finally block and the return
TTFinally(t) ==
  /\ At(t, TT, "finally")
  /\ TTExit(t)
  /\ UNCHANGED <<download, citations, probe, rvars, articles, now, origin, translateCalls, responses, deeplKey, nfail>>

----------------------------------------------------------------------------
(* Specifications *)

EnRow == Row(1, "docA", "en", "1", <<"Hello">>)
ZhRow == Row(2, "docA", "zh-Hant-HK", "2", <<"Hello", "ZH-HANT">>)

\* what the database may hold when the process starts
InitialArticles == {<<>>, <<EnRow>>, <<EnRow, ZhRow>>}

InitArticle ==
  /\ articles \in InitialArticles
  /\ activeOperations = [k \in {} |-> 0]
  /\ now = StartMs
  /\ tasks = <<>>
  /\ origin = <<>>
  /\ translateCalls = <<>>
  /\ responses = <<>>
  /\ deeplKey \in BOOLEAN
  /\ nfail = 0
  /\ leaked = {}
  /\ reports = <<>>
  /\ coverOperations = [k \in {} |-> 0]
  /\ uploads = 0
  /\ tmpFiles = {}
  /\ escaped = 0
  /\ evicted = {}
  /\ probe = NoProbe
  /\ download = NoDownload
  /\ citations = NoCitations

\* the database of a running site: the English variant, with or without its target
InitRace ==
  /\ InitArticle
  /\ articles \in {<<EnRow>>, <<EnRow, ZhRow>>}

LifecycleStep(t) ==
  \/ HandlerEntry(t)
  \/ HandlerSlug(t)
  \/ HandlerTrigger(t)
  \/ TTFind(t)
  \/ TTLoad(t)
  \/ TTTranslate(t)
  \/ TTExisting(t)
  \/ TTWrite(t)
  \/ TTRequery(t)
  \/ TTSlug(t)
  \/ TTFinally(t)

External ==
  \/ \E doc \in DocumentIds, loc \in Locales, slug \in SlugInputs, title \in TitleInputs :
       ExternalCreate(doc, loc, slug, title)
  \/ \E id \in 1..Len(articles) :
       \E slug \in SlugInputs \cup {String(id)}, title \in TitleInputs :
         ExternalUpdate(id, slug, title)

Quiescent == \A t \in 1..Len(tasks) : tasks[t] = <<>>

\* one external write and the cascade of lifecycle invocations it causes
NextCascade ==
  \/ tasks = <<>> /\ External
  \/ Tick
  \/ \E t \in 1..Len(tasks) : LifecycleStep(t)

SpecCascade == InitArticle /\ [][NextCascade]_vars

----------------------------------------------------------------------------
(* translateArticle(ctx) of the translate-article controller *)

CTL == {"translateArticle"}

\* POST /api/articles/:id/translate
HttpTranslate(id) ==
  /\ tasks' = Append(tasks, <<Frame("translateArticle", "find", id, "")>>)
  /\ origin' = Append(origin, [kind |-> "translate", id |-> id])
  /\ responses' = Append(responses, <<>>)
  /\ translateCalls' = Append(translateCalls, NoCalls)
  /\ UNCHANGED <<download, citations, probe, rvars, articles, activeOperations, now, deeplKey, nfail, leaked>>

\* a controller that sends its response twice
respondTwice(t, status) ==
  /\ responses' = [responses EXCEPT ![t] = Append(Append(@, status), status)]
  /\ tasks' = [tasks EXCEPT ![t] = Pop(@)]

\* return ctx.<status>(...): the response is sent and the controller returns
Respond(t, status) ==
  /\ responses' = [responses EXCEPT ![t] = Append(@, status)]
  /\ tasks' = [tasks EXCEPT ![t] = Pop(@)]

\* an awaited call throws: catch (error) { return ctx.badRequest(...) }
CtlThrow(t, pc) ==
  /\ At(t, CTL, pc)
  /\ CanFail
  /\ nfail' = nfail + 1
  /\ Respond(t, "badRequest")
  /\ UNCHANGED <<download, citations, probe, rvars, articles, activeOperations, now, origin, translateCalls, deeplKey, leaked>>

\* lines 18-66: the article, its locale and documentId, the target locale, the key
CtlFind(t) ==
  \/ CtlThrow(t, "find")
  \/ /\ At(t, CTL, "find")
     /\ LET f == Top(t) IN
          IF f.id \notin 1..Len(articles) THEN Respond(t, "notFound")
          ELSE LET row == articles[f.id]
                   tgt == IF row.locale = "" THEN "" ELSE controllerTargetLocale(row.locale)
               IN IF row.locale = "" \/ row.documentId = "" \/ tgt = "" \/ ~deeplKey
                  THEN Respond(t, "badRequest")
                  ELSE /\ TTGoto(t, [f EXCEPT !.src = row.locale, !.tgt = tgt,
                                              !.doc = row.documentId], "load")
                       /\ UNCHANGED responses
     /\ UNCHANGED <<download, citations, probe, rvars, articles, activeOperations, now, origin, translateCalls,
                    deeplKey, nfail, leaked>>

\* lines 68-97: documents().findOne({ documentId, locale, populate })
CtlLoad(t) ==
  \/ CtlThrow(t, "load")
  \/ /\ At(t, CTL, "load")
     /\ TTGoto(t, [Top(t) EXCEPT !.text = articles[Top(t).id].title,
                                 !.data = Fields(articles[Top(t).id])], "translate")
     /\ UNCHANGED <<download, citations, probe, rvars, articles, activeOperations, now, origin, translateCalls,
                    responses, deeplKey, nfail, leaked>>

\* line 102: translateService.translateArticle(fullArticle, source, target)
CtlTranslate(t) ==
  /\ At(t, CTL, "translate")
  /\ translateCalls' = Called(t, Top(t))
  /\ LET f == Top(t) IN
       \E failAt \in 0..ProviderCalls(f) :
         LET translated(r) ==
               IF r.threw
               THEN /\ CanFail
                    /\ nfail' = nfail + 1
                    /\ Respond(t, "badRequest")
               ELSE /\ UNCHANGED <<nfail, responses>>
                    /\ TTGoto(t, WithData(f, [r.out EXCEPT
                                    !.description = truncated(@)]), "existing")
         IN translated(translateArticle(fullArticle(f), f.src, f.tgt, deeplKey, failAt))
  /\ UNCHANGED <<download, citations, probe, rvars, articles, activeOperations, now, origin, deeplKey, leaked>>

\* lines 113-115: findOne({ where: { documentId, locale: targetLocale } })
CtlExisting(t) ==
  \/ CtlThrow(t, "existing")
  \/ /\ At(t, CTL, "existing")
     /\ TTGoto(t, [Top(t) EXCEPT !.tid = FindVariant(articles, Top(t).doc, Top(t).tgt)],
               "write")
     /\ UNCHANGED <<download, citations, probe, rvars, articles, activeOperations, now, origin, translateCalls,
                    responses, deeplKey, nfail, leaked>>

\* lines 119-149: update the existing target, or create the target locale
CtlWrite(t) ==
  \/ CtlThrow(t, "write")
  \/ /\ At(t, CTL, "write")
     /\ CanPush(t)
     /\ LET f == Top(t) IN
          IF f.tid # 0
          THEN /\ articles' = [articles EXCEPT
                                 ![f.tid] = updateData(@, f, slugData(f.tid))]
               /\ tasks' = [tasks EXCEPT ![t] =
                     FireEvent(@, f, "source", "afterUpdate", articles'[f.tid])]
          ELSE LET r == documentsUpdate(articles, f.doc, f.tgt, f.text) IN
               /\ articles' = [r.arts EXCEPT ![r.id] = createData(@, f)]
               /\ \E hasId \in BOOLEAN :
                    tasks' = [tasks EXCEPT ![t] =
                      FireEvent(@, [f EXCEPT !.tid = IF hasId THEN r.id ELSE 0],
                                IF hasId THEN "slug" ELSE "source",
                                IF r.created THEN "afterCreate" ELSE "afterUpdate",
                                r.arts[r.id])]
     /\ UNCHANGED <<download, citations, probe, rvars, activeOperations, now, origin, translateCalls, responses,
                    deeplKey, nfail, leaked>>

\* lines 152-157: slug of the new target := its own id
CtlSlug(t) ==
  \/ CtlThrow(t, "slug")
  \/ /\ At(t, CTL, "slug")
     /\ CanPush(t)
     /\ LET f == Top(t) IN
          /\ articles' = [articles EXCEPT ![f.tid].slug = slugData(f.tid)]
          /\ tasks' = [tasks EXCEPT ![t] =
                FireEvent(@, f, "source", "afterUpdate", articles'[f.tid])]
     /\ UNCHANGED <<download, citations, probe, rvars, activeOperations, now, origin, translateCalls, responses,
                    deeplKey, nfail, leaked>>

\* lines 163-166: also update the source article's slug
CtlSource(t) ==
  \/ CtlThrow(t, "source")
  \/ /\ At(t, CTL, "source")
     /\ CanPush(t)
     /\ LET f == Top(t) IN
          /\ articles' = [articles EXCEPT ![f.id].slug = String(f.id)]
          /\ tasks' = [tasks EXCEPT ![t] =
                FireEvent(@, f, "respond", "afterUpdate", articles'[f.id])]
     /\ UNCHANGED <<download, citations, probe, rvars, activeOperations, now, origin, translateCalls, responses,
                    deeplKey, nfail, leaked>>

\* lines 170-181: return { success: true, ... }
CtlRespond(t) ==
  /\ At(t, CTL, "respond")
  /\ Respond(t, "success")
  /\ UNCHANGED <<download, citations, probe, rvars, articles, activeOperations, now, origin, translateCalls,
                 deeplKey, nfail, leaked>>

ControllerStep(t) ==
  \/ CtlFind(t)
  \/ CtlLoad(t)
  \/ CtlTranslate(t)
  \/ CtlExisting(t)
  \/ CtlWrite(t)
  \/ CtlSlug(t)
  \/ CtlSource(t)
  \/ CtlRespond(t)

\* one external write and one explicit trigger, in either order, the second
\* arriving at any time while the first is being served
NextArticle ==
  \/ (\A t \in 1..Len(tasks) : origin[t].kind = "translate") /\ External
  \/ (\A t \in 1..Len(tasks) : origin[t].kind # "translate")
       /\ \E id \in 1..(Len(articles) + 1) : HttpTranslate(id)
  \/ \E t \in 1..Len(tasks) : LifecycleStep(t) \/ ControllerStep(t)

SpecArticle == InitRace /\ [][NextArticle]_vars

----------------------------------------------------------------------------
(* Properties of the article pipeline *)

Frames(t) == {tasks[t][i] : i \in 1..Len(tasks[t])}

\* a translation run of task t into tgt for document doc that has passed its
\* entry checks and has not returned
InTranslation(t, doc, tgt) ==
  \E f \in Frames(t) : f.fn \in TT \cup CTL /\ f.pc # "find" /\ f.doc = doc /\ f.tgt = tgt

\* C1: with the DeepL key configured, every external call succeeding and no
\* await outlasting the guard's TTL, the cascade of one external create or
\* update makes at most one translateArticle call per direction.
C1_AtMostOnePerDirection ==
  (deeplKey /\ nfail = 0 /\ now = StartMs) =>
    \A t \in 1..Len(tasks) : \A tgt \in DOMAIN translateCalls[t] :
      translateCalls[t][tgt] <= 1

\* C2: while a forward run S -> T of a document is in flight, the event fired by
\* its write to the target variant starts no run T -> S of the same document.
C2_NoReverseRunInFlight ==
  \A t \in 1..Len(tasks) : \A i, j \in 1..Len(tasks[t]) :
    ~ ( /\ i < j
        /\ tasks[t][i].fn \in TT /\ tasks[t][i].pc # "find"
        /\ tasks[t][j].fn \in TT /\ tasks[t][j].pc # "find"
        /\ tasks[t][j].doc = tasks[t][i].doc
        /\ tasks[t][j].src = tasks[t][i].tgt
        /\ tasks[t][j].tgt = tasks[t][i].src )

\* the nesting of awaited lifecycle invocations stays below the frame bound
Shallow == \A t \in 1..Len(tasks) : Len(tasks[t]) < MaxDepth

C4_OneRunPerDirection ==
  \A t1, t2 \in 1..Len(tasks) : \A doc \in DocumentIds, tgt \in {"en", "zh-Hant-HK"} :
    (InTranslation(t1, doc, tgt) /\ InTranslation(t2, doc, tgt)) => t1 = t2

C9_KeysReleasedOnReturn == leaked = {}

\* fairness of the cascade: a lifecycle step that can run does run
SpecCascadeFair ==
  SpecCascade /\ WF_vars(\E t \in 1..Len(tasks) : LifecycleStep(t))

----------------------------------------------------------------------------
(* Report storage and the media library *)

ReportRow(id, doc, file, cover) ==
  [id |-> id, documentId |-> doc, report_file |-> file, cover |-> cover]

\* plugin::upload.file rows that exist before any cover is uploaded: a PDF, a
\* PDF without pages, an image
MediaFiles ==
  <<[mime |-> "application/pdf", pages |-> 1],
    [mime |-> "application/pdf", pages |-> 0],
    [mime |-> "image/png", pages |-> 0]>>

FileInputs  == {0, 1, 2, 3}
CoverInputs == {0, 3}
ReportDocs  == <<"repA">>

\* id of the next uploaded asset
NextAsset(n) == Len(MediaFiles) + n + 1

\* documents('api::report.report').findFirst({ filters: { documentId } })
FindReport(reps, doc) ==
  LET hits == {i \in 1..Len(reps) : reps[i].documentId = doc}
  IN IF hits = {} THEN 0 ELSE CHOOSE i \in hits : \A j \in hits : i <= j

coverKey(reportId) == "extract-cover-" \o String(reportId)

\* a hook that starts a run for every report with a file
extractAlways(file, cover) == file # 0

\* afterCreate / afterUpdate: report?.report_file?.id && !report?.cover?.id
needsCover(file, cover) == file # 0 /\ cover = 0

\* a trigger that leaves an existing cover alone
extractIfNoCover(file, cover) == file # 0 /\ cover = 0

\* extractCover: !report.report_file answers badRequest; an existing cover is
\* only logged
hasReportFile(file, cover) == file # 0

\* a write that leaves the cover empty
coverUnset(asset) == 0

\* data: { cover: uploadedCover.id }
coverData(asset) == asset

ReportHandlers == {"reportAfterCreate", "reportAfterUpdate"}
RUN == {"extractAndSetCover"}
XC  == {"extractCover"}

\* awaited calls of extractAndSetCover that sit inside its try block (lines 45-173)
TryBlock == {"file", "read", "write", "upload", "update", "remove"}

NewTask(frame, kind) ==
  /\ origin' = Append(origin, [kind |-> kind, id |-> frame.id])
  /\ responses' = Append(responses, <<>>)

\* requests (report writes, explicit triggers) received so far
Requests == Cardinality({t \in 1..Len(tasks) : origin[t].kind # "immediate"})

----------------------------------------------------------------------------
(* The triggering surface of the report pipeline *)

ReportCreate(file, cover) ==
  /\ Len(reports) < Len(ReportDocs)
  /\ LET id == Len(reports) + 1
         fr == Frame("reportAfterCreate", "entry", id, "")
     IN /\ reports' = Append(reports, ReportRow(id, ReportDocs[id], file, cover))
        /\ tasks' = Append(tasks, <<fr>>)
        /\ NewTask(fr, "create")
  /\ UNCHANGED <<download, citations, probe, avars, now, nfail, coverOperations, uploads, tmpFiles, escaped, evicted>>

ReportUpdate(id, file, cover) ==
  /\ id \in 1..Len(reports)
  /\ LET fr == Frame("reportAfterUpdate", "entry", id, "")
     IN /\ reports' = [reports EXCEPT ![id].report_file = file, ![id].cover = cover]
        /\ tasks' = Append(tasks, <<fr>>)
        /\ NewTask(fr, IF file = reports[id].report_file /\ cover = reports[id].cover
                         THEN "edit" ELSE "update")
  /\ UNCHANGED <<download, citations, probe, avars, now, nfail, coverOperations, uploads, tmpFiles, escaped, evicted>>

\* POST /api/reports/:documentId/extract-cover
HttpExtract(doc) ==
  /\ LET fr == [Frame("extractCover", "find", 0, "") EXCEPT !.doc = doc]
     IN /\ tasks' = Append(tasks, <<fr>>)
        /\ NewTask(fr, "extract")
  /\ UNCHANGED <<download, citations, probe, avars, rvars, now, nfail>>

\* an await outlasts the report TTL
ReportTick ==
  /\ now < StartMs + MaxTicks * ReportTickMs
  /\ DOMAIN coverOperations # {}
  /\ now' = now + ReportTickMs
  /\ UNCHANGED <<download, citations, probe, avars, rvars, tasks, origin, responses, nfail>>

----------------------------------------------------------------------------
(* afterCreate / afterUpdate of the report lifecycles *)

\* a rejection reaches the bottom frame of the task: the catch and finally of
\* extractAndSetCover, the catch of extractCover, or the external writer
Rejected(t) ==
  LET b == tasks[t][1] IN
  /\ tasks' = [tasks EXCEPT ![t] = <<>>]
  /\ nfail' = nfail + 1
  /\ IF b.fn \in RUN
     THEN /\ IF b.pc \in TryBlock
             THEN /\ coverOperations' = endOperation(coverOperations, coverKey(b.id))
                  /\ UNCHANGED escaped
             ELSE /\ escaped' = escaped + 1
                  /\ UNCHANGED coverOperations
          /\ responses' = [responses EXCEPT ![t] = Append(@, "error")]
     ELSE /\ responses' = [responses EXCEPT ![t] =
                 IF b.fn \in XC THEN Append(@, "internalServerError")
                 ELSE Append(@, "rejected")]
          /\ UNCHANGED <<coverOperations, escaped, evicted>>

\* lines 194-202 / 226-234: the database answers the handler's findOne
ReportHandlerRead(t) ==
  /\ At(t, ReportHandlers, "entry")
  /\ LET f == Top(t) IN
       \/ /\ CanFail
          /\ Rejected(t)
          /\ UNCHANGED origin
       \/ /\ tasks' = [tasks EXCEPT ![t] =
                WithTop(@, [f EXCEPT !.pc = "decide",
                                     !.file = reports[f.id].report_file,
                                     !.cover = reports[f.id].cover])]
          /\ UNCHANGED <<nfail, coverOperations, escaped, origin, responses>>
  /\ UNCHANGED <<download, citations, probe, avars, now, reports, uploads, tmpFiles, evicted>>

\* lines 207-212 / 239-244: the answer arrives; the run is scheduled with
\* setImmediate when a file is attached and no cover is set; the handler returns
ReportHandlerDecide(t) ==
  /\ At(t, ReportHandlers, "decide")
  /\ LET f   == Top(t)
         run == [Frame("extractAndSetCover", "start", f.id, "") EXCEPT
                   !.file = f.file, !.by = f.fn]
     IN IF needsCover(f.file, f.cover)
        THEN /\ tasks' = Append([tasks EXCEPT ![t] = Pop(@)], <<run>>)
             /\ NewTask(run, "immediate")
        ELSE /\ tasks' = [tasks EXCEPT ![t] = Pop(@)]
             /\ UNCHANGED <<origin, responses>>
  /\ UNCHANGED <<download, citations, probe, avars, rvars, now, nfail>>

----------------------------------------------------------------------------
(* extractAndSetCover(reportId, reportFileId) of the report lifecycles *)

\* the run returns: finally { endOperation(operationKey) }
RunExit(t, outcome) ==
  /\ coverOperations' = endOperation(coverOperations, coverKey(Top(t).id))
  /\ tasks' = [tasks EXCEPT ![t] = <<>>]
  /\ responses' = [responses EXCEPT ![t] = Append(@, outcome)]

\* an awaited call of the run throws
RunThrow(t, pc) ==
  /\ At(t, RUN, pc)
  /\ CanFail
  /\ Rejected(t)
  /\ UNCHANGED <<download, citations, probe, avars, now, origin, reports, uploads, tmpFiles, evicted>>

\* lines 36-51: the guard on extract-cover-<id>, then the file row is requested
RunStart(t) ==
  /\ At(t, RUN, "start")
  /\ LET f   == Top(t)
         key == coverKey(f.id)
         reg == evict(coverOperations, key, now, ReportTtlMs)
     IN /\ evicted' = IF reg = coverOperations THEN evicted ELSE evicted \cup {key}
        /\ IF isOperationActive(coverOperations, key, now, ReportTtlMs)
           THEN /\ tasks' = [tasks EXCEPT ![t] = <<>>]
                /\ responses' = [responses EXCEPT ![t] = Append(@, "skipped")]
                /\ coverOperations' = reg
           ELSE /\ coverOperations' = startOperation(reg, key, now)
                /\ tasks' = [tasks EXCEPT ![t] =
                      WithTop(@, [f EXCEPT !.pc = "file", !.at = now])]
                /\ UNCHANGED responses
  /\ UNCHANGED <<download, citations, probe, avars, now, origin, nfail, reports, uploads, tmpFiles, escaped>>

\* lines 49-62: the file row; only application/pdf goes on
RunFile(t) ==
  \/ RunThrow(t, "file")
  \/ /\ At(t, RUN, "file")
     /\ LET f == Top(t) IN
          IF f.file \notin 1..Len(MediaFiles) \/ MediaFiles[f.file].mime # "application/pdf"
          THEN RunExit(t, "notPdf")
          ELSE /\ TTGoto(t, f, "read")
               /\ UNCHANGED <<coverOperations, responses>>
     /\ UNCHANGED <<download, citations, probe, avars, now, origin, nfail, reports, uploads, tmpFiles, escaped, evicted>>

\* lines 71-108: pathExists, import, readFile, then page 0 is rendered to a PNG
RunRead(t) ==
  \/ RunThrow(t, "read")
  \/ /\ At(t, RUN, "read")
     /\ LET f == Top(t) IN
          \/ \* the file is not on disk
             /\ CanFail
             /\ nfail' = nfail + 1
             /\ RunExit(t, "missing")
          \/ /\ UNCHANGED nfail
             /\ IF MediaFiles[f.file].pages = 0
                THEN RunExit(t, "error")
                ELSE /\ TTGoto(t, f, "write")
                     /\ UNCHANGED <<coverOperations, responses>>
     /\ UNCHANGED <<download, citations, probe, avars, now, origin, reports, uploads, tmpFiles, escaped, evicted>>

\* lines 112-124: ensureDir, writeFile of the transient PNG, stat
RunWrite(t) ==
  \/ RunThrow(t, "write")
  \/ /\ At(t, RUN, "write")
     /\ tmpFiles' = tmpFiles \cup {t}
     /\ TTGoto(t, Top(t), "upload")
     /\ UNCHANGED <<download, citations, probe, avars, now, origin, responses, nfail, reports, coverOperations,
                    uploads, escaped, evicted>>

\* lines 134-166: the upload; an empty result returns, an asset is written to cover
RunUpload(t) ==
  \/ RunThrow(t, "upload")
  \/ /\ At(t, RUN, "upload")
     /\ LET f == Top(t) IN
          \/ /\ CanFail
             /\ nfail' = nfail + 1
             /\ RunExit(t, "empty")
             /\ UNCHANGED uploads
          \/ /\ uploads' = uploads + 1
             /\ TTGoto(t, [f EXCEPT !.asset = NextAsset(uploads)], "update")
             /\ UNCHANGED <<nfail, coverOperations, responses>>
     /\ UNCHANGED <<download, citations, probe, avars, now, origin, reports, tmpFiles, escaped, evicted>>

\* lines 163-166: db.query.update({ where: { id }, data: { cover } }) commits
\* and fires afterUpdate
RunUpdate(t) ==
  \/ RunThrow(t, "update")
  \/ /\ At(t, RUN, "update")
     /\ LET f == Top(t) IN
          /\ reports' = [reports EXCEPT ![f.id].cover = coverData(f.asset)]
          /\ tasks' = [tasks EXCEPT ![t] =
                Append(WithTop(@, [f EXCEPT !.pc = "remove"]),
                       Frame("reportAfterUpdate", "entry", f.id, ""))]
     /\ UNCHANGED <<download, citations, probe, avars, now, origin, responses, nfail, coverOperations, uploads,
                    tmpFiles, escaped, evicted>>

\* lines 171-179: fs.remove of the transient file, then the finally block
RunRemove(t) ==
  \/ RunThrow(t, "remove")
  \/ /\ At(t, RUN, "remove")
     /\ tmpFiles' = tmpFiles \ {t}
     /\ RunExit(t, "done")
     /\ UNCHANGED <<download, citations, probe, avars, now, origin, nfail, reports, uploads, escaped, evicted>>

ReportStep(t) ==
  \/ ReportHandlerRead(t)
  \/ ReportHandlerDecide(t)
  \/ RunFile(t)
  \/ RunRead(t)
  \/ RunWrite(t)
  \/ RunUpload(t)
  \/ RunUpdate(t)
  \/ RunRemove(t)

----------------------------------------------------------------------------
(* extractCover(ctx) and extractCoverFromPdf of the extract-cover controller *)

\* catch (error) { return ctx.internalServerError(error.message) }
XThrow(t, pc) ==
  /\ At(t, XC, pc)
  /\ CanFail
  /\ Rejected(t)
  /\ UNCHANGED <<download, citations, probe, avars, now, origin, reports, uploads, tmpFiles, evicted>>

\* lines 23-44 and 114-134: the report, its file; the file is requested
XFind(t) ==
  \/ XThrow(t, "find")
  \/ /\ At(t, XC, "find")
     /\ LET f   == Top(t)
            hit == FindReport(reports, f.doc)
        IN IF hit = 0 THEN Respond(t, "notFound")
           ELSE IF ~hasReportFile(reports[hit].report_file, reports[hit].cover)
           THEN Respond(t, "badRequest")
           ELSE /\ TTGoto(t, [f EXCEPT !.id = hit, !.file = reports[hit].report_file,
                                       !.cover = reports[hit].cover], "read")
                /\ UNCHANGED responses
     /\ UNCHANGED <<download, citations, probe, avars, rvars, now, origin, nfail>>

\* lines 114-173: the bytes are fetched (a failed fetch returns null), page 0 is
\* rendered whatever the file's MIME type, the transient file is requested
XRead(t) ==
  /\ At(t, XC, "read")
  /\ LET f == Top(t) IN
       \/ /\ CanFail
          /\ nfail' = nfail + 1
          /\ Respond(t, "internalServerError")
       \/ /\ UNCHANGED nfail
          /\ IF MediaFiles[f.file].pages = 0
             THEN Respond(t, "internalServerError")
             ELSE /\ TTGoto(t, f, "write")
                  /\ UNCHANGED responses
  /\ UNCHANGED <<download, citations, probe, avars, rvars, now, origin>>

\* lines 173-178: writeFile of the transient PNG, stat
XWrite(t) ==
  \/ XThrow(t, "write")
  \/ /\ At(t, XC, "write")
     /\ tmpFiles' = tmpFiles \cup {t}
     /\ TTGoto(t, Top(t), "upload")
     /\ UNCHANGED <<download, citations, probe, avars, now, origin, responses, nfail, reports, coverOperations,
                    uploads, escaped, evicted>>

\* lines 191-200: the upload
XUpload(t) ==
  \/ XThrow(t, "upload")
  \/ /\ At(t, XC, "upload")
     /\ LET f == Top(t) IN
          \/ /\ CanFail
             /\ nfail' = nfail + 1
             /\ TTGoto(t, [f EXCEPT !.asset = 0], "remove")
             /\ UNCHANGED uploads
          \/ /\ uploads' = uploads + 1
             /\ TTGoto(t, [f EXCEPT !.asset = NextAsset(uploads)], "remove")
             /\ UNCHANGED nfail
     /\ UNCHANGED <<download, citations, probe, avars, now, origin, responses, reports, coverOperations, tmpFiles,
                    escaped, evicted>>

\* lines 203-214 and 46-54: fs.remove, the asset id or null comes back, the
\* cover write is requested
XRemove(t) ==
  \/ XThrow(t, "remove")
  \/ /\ At(t, XC, "remove")
     /\ tmpFiles' = tmpFiles \ {t}
     /\ IF Top(t).asset = 0
        THEN Respond(t, "internalServerError")
        ELSE TTGoto(t, Top(t), "update") /\ UNCHANGED responses
     /\ UNCHANGED <<download, citations, probe, avars, now, origin, nfail, reports, coverOperations, uploads, escaped, evicted>>

\* lines 51-54: documents().update({ documentId, data: { cover } }) commits and
\* fires afterUpdate
XUpdate(t) ==
  \/ XThrow(t, "update")
  \/ /\ At(t, XC, "update")
     /\ LET f == Top(t) IN
          /\ reports' = [reports EXCEPT ![f.id].cover = f.asset]
          /\ tasks' = [tasks EXCEPT ![t] =
                Append(WithTop(@, [f EXCEPT !.pc = "respond"]),
                       Frame("reportAfterUpdate", "entry", f.id, ""))]
     /\ UNCHANGED <<download, citations, probe, avars, now, origin, responses, nfail, coverOperations, uploads,
                    tmpFiles, escaped, evicted>>

\* lines 58-62: ctx.send({ success: true, ... })
XRespond(t) ==
  /\ At(t, XC, "respond")
  /\ Respond(t, "success")
  /\ UNCHANGED <<download, citations, probe, avars, rvars, now, origin, nfail>>

ExtractStep(t) ==
  \/ XFind(t)
  \/ XRead(t)
  \/ XWrite(t)
  \/ XUpload(t)
  \/ XRemove(t)
  \/ XUpdate(t)
  \/ XRespond(t)

----------------------------------------------------------------------------
(* The report pipeline under concurrent requests *)

InitialReports ==
  {<<>>, <<ReportRow(1, "repA", 1, 0)>>}

InitReport ==
  /\ articles = <<>>
  /\ activeOperations = [k \in {} |-> 0]
  /\ now = StartMs
  /\ tasks = <<>>
  /\ origin = <<>>
  /\ translateCalls = <<>>
  /\ responses = <<>>
  /\ deeplKey = TRUE
  /\ nfail = 0
  /\ leaked = {}
  /\ reports \in InitialReports
  /\ coverOperations = [k \in {} |-> 0]
  /\ uploads = 0
  /\ tmpFiles = {}
  /\ escaped = 0
  /\ evicted = {}
  /\ probe = NoProbe
  /\ download = NoDownload
  /\ citations = NoCitations

ReportRequest ==
  \/ \E file \in FileInputs, cover \in CoverInputs : ReportCreate(file, cover)
  \/ \E id \in 1..Len(reports) :
       \E file \in {reports[id].report_file, 1}, cover \in {reports[id].cover, 0} :
         ReportUpdate(id, file, cover)
  \/ \E i \in 1..Len(ReportDocs) : HttpExtract(ReportDocs[i])

\* a setImmediate callback is queued: it runs in the check phase of the current
\* loop iteration, before any later I/O completion is processed
Immediate == \E t \in 1..Len(tasks) : At(t, RUN, "start")

NextReport ==
  \/ \E t \in 1..Len(tasks) : RunStart(t)
  \/ ~Immediate /\ Requests < MaxRequests /\ ReportRequest
  \/ ~Immediate /\ ReportTick
  \/ ~Immediate /\ \E t \in 1..Len(tasks) : ReportStep(t) \/ ExtractStep(t)

SpecReport == InitReport /\ [][NextReport]_vars

----------------------------------------------------------------------------
(* Properties of the report pipeline *)

\* task t holds an extractAndSetCover run for report id that has passed the guard
InRun(t, id) ==
  \E f \in Frames(t) : f.fn \in RUN /\ f.pc # "start" /\ f.id = id

\* task t computes a cover for report id and has not finished its upload
Computing(t, id) ==
  \E f \in Frames(t) :
    f.fn \in RUN \cup XC /\ f.id = id /\ f.pc \in {"file", "read", "write", "upload"}

\* a pending call of extractAndSetCover finds its key held and younger than the TTL
Held(t) ==
  /\ At(t, RUN, "start")
  /\ isOperationActive(coverOperations, coverKey(Top(t).id), now, ReportTtlMs)

\* the call of task t returns without a file read, a render, an upload or a write
ReturnsAtOnce(t) ==
  /\ tasks'[t] = <<>>
  /\ responses'[t] = Append(responses[t], "skipped")
  /\ UNCHANGED <<reports, uploads, tmpFiles>>

\* whenever the pending call of a task moves, it returns at once
SkipsWhileHeld ==
  \A t \in 1..Len(tasks) : (Held(t) /\ tasks'[t] # tasks[t]) => ReturnsAtOnce(t)

NoOverlap ==
  \A t1, t2 \in 1..Len(tasks) : \A id \in 1..Len(reports) :
    (InRun(t1, id) /\ InRun(t2, id)) => t1 = t2

\* C5, as stated: two extractAndSetCover runs for the same report never overlap,
\* and a call made while the key is held and younger than 120 s returns at once.
C5_RunsNeverOverlap ==
  /\ []NoOverlap
  /\ [][SkipsWhileHeld]_vars

\* C5, amended: two extractAndSetCover runs for the same report overlap only
\* after an entry of the key has outlived the 120 s TTL and was dropped; a call
\* made while the key is held and younger than 120 s returns at once.
C5_OverlapOnlyAfterExpiry ==
  /\ [](\A t1, t2 \in 1..Len(tasks) : \A id \in 1..Len(reports) :
          (InRun(t1, id) /\ InRun(t2, id) /\ t1 # t2) => coverKey(id) \in evicted)
  /\ [][SkipsWhileHeld]_vars

\* a second call found the key held and young and returned while the first run
\* was still in flight
C5_Witness ==
  \E t1, t2 \in 1..Len(tasks) :
    /\ origin[t1].kind = "immediate" /\ origin[t2].kind = "immediate"
    /\ origin[t1].id = origin[t2].id
    /\ InRun(t1, origin[t1].id)
    /\ responses[t2] = <<"skipped">>

\* C6: no two cover computations for one report run concurrently up to the
\* upload step when one of them was started by the explicit trigger.
C6_NoConcurrentComputation ==
  \A t1, t2 \in 1..Len(tasks) : \A id \in 1..Len(reports) :
    (Computing(t1, id) /\ Computing(t2, id) /\ origin[t1].kind = "extract") => t1 = t2

\* a report created with the PDF and no cover, then edited once, every external
\* call succeeding, every run finished
CreatedThenEdited ==
  /\ Len(origin) >= 2
  /\ origin[1].kind = "create"
  /\ {origin[t].kind : t \in 2..Len(origin)} = {"edit", "immediate"}
  /\ Cardinality({t \in 1..Len(origin) : origin[t].kind = "edit"}) = 1
  /\ reports[1].report_file = 1
  /\ nfail = 0
  /\ Quiescent

\* C7: afterCreate followed by one afterUpdate of a report with a PDF and no
\* cover results in exactly one upload, and the cover references that asset.
C7_ExactlyOneUpload ==
  CreatedThenEdited => (uploads = 1 /\ reports[1].cover = NextAsset(0))

\* a run of task t ends
RunEnds(t) == InRun(t, tasks[t][1].id) /\ tasks'[t] = <<>>

\* C10: a run that acquired extract-cover-<id> has removed the key when it ends,
\* on every path, and no failure escapes the run.
C10_KeyRemovedOnEveryPath ==
  /\ [](escaped = 0)
  /\ [][\A t \in 1..Len(tasks) :
          RunEnds(t) => coverKey(tasks[t][1].id) \notin DOMAIN coverOperations']_vars

\* a run has ended in its catch block and its key is gone
C10_Witness ==
  \E t \in 1..Len(tasks) :
    /\ origin[t].kind = "immediate"
    /\ tasks[t] = <<>>
    /\ responses[t] = <<"error">>
    /\ coverKey(origin[t].id) \notin DOMAIN coverOperations

----------------------------------------------------------------------------
(* The operation guard on its own: the three functions of both registries,  *)
(* called in any order on any key at any time                               *)

Registries == {"article", "report"}

\* keys the two modules build
GuardKeys(w) ==
  IF w = "article" THEN {operationKey(Frame("afterUpdate", "entry", 1, "")),
                         translationKey(1, "en")}
  ELSE {coverKey(1)}

\* the TTL written in isOperationActive of each module
Ttl(w) == IF w = "article" THEN ArticleTtlMs ELSE ReportTtlMs

\* the Map of each module
Reg(w) == IF w = "article" THEN activeOperations ELSE coverOperations

\* values Date.now() takes: on and just past every multiple of the shorter TTL
GuardTimes ==
  {StartMs + k * ArticleTtlMs + e : k \in 0..(2 * MaxTicks), e \in {0, 1}}

\* everything the guard functions do not touch
idle == <<articles, tasks, origin, translateCalls, responses, deeplKey, nfail,
          leaked, reports, uploads, tmpFiles, escaped, evicted, citations>>

\* registry w becomes reg, the other registry stays
SetReg(w, reg) ==
  /\ activeOperations' = IF w = "article" THEN reg ELSE activeOperations
  /\ coverOperations' = IF w = "report" THEN reg ELSE coverOperations

GuardCall(fn, w, key, out) ==
  probe' = [fn |-> fn, arg |-> <<w, key, Reg(w), now>>, out |-> out]

GuardIsActive(w, key) ==
  /\ GuardCall("isOperationActive", w, key,
               <<isOperationActive(Reg(w), key, now, Ttl(w))>>)
  /\ SetReg(w, evict(Reg(w), key, now, Ttl(w)))
  /\ UNCHANGED <<download, idle, now>>

GuardStart(w, key) ==
  /\ GuardCall("startOperation", w, key, <<>>)
  /\ SetReg(w, startOperation(Reg(w), key, now))
  /\ UNCHANGED <<download, idle, now>>

GuardEnd(w, key) ==
  /\ GuardCall("endOperation", w, key, <<>>)
  /\ SetReg(w, endOperation(Reg(w), key))
  /\ UNCHANGED <<download, idle, now>>

GuardClock ==
  /\ \E t \in GuardTimes : t > now /\ now' = t
  /\ UNCHANGED <<download, idle, activeOperations, coverOperations, probe>>

InitGuard == InitArticle /\ articles = <<>> /\ deeplKey = TRUE

NextGuard ==
  \/ \E w \in Registries : \E key \in GuardKeys(w) : GuardIsActive(w, key)
  \/ \E w \in Registries : \E key \in GuardKeys(w) : GuardStart(w, key)
  \/ \E w \in Registries : \E key \in GuardKeys(w) : GuardEnd(w, key)
  \/ GuardClock

SpecGuard == InitGuard /\ [][NextGuard]_vars

\* the registry without the entry of key, written out
Without(reg, key) == [j \in DOMAIN reg \ {key} |-> reg[j]]

\* C11: isOperationActive(key) returns true exactly when an entry of key exists
\* and is no older than the TTL of its registry; an older entry is removed and
\* the answer is false; startOperation and endOperation change the entry of
\* their own key only; nothing else changes a registry.
C11_GuardContract ==
  probe.fn # "" =>
    LET w   == probe.arg[1]
        key == probe.arg[2]
        reg == probe.arg[3]
        t   == probe.arg[4]
        has == key \in DOMAIN reg
    IN /\ probe.fn = "isOperationActive" =>
            /\ probe.out = <<has /\ t - reg[key] <= Ttl(w)>>
            /\ Reg(w) = IF has /\ t - reg[key] > Ttl(w) THEN Without(reg, key) ELSE reg
       /\ probe.fn = "startOperation" =>
            /\ DOMAIN Reg(w) = DOMAIN reg \cup {key}
            /\ Reg(w)[key] = t
            /\ \A j \in DOMAIN reg \ {key} : Reg(w)[j] = reg[j]
       /\ probe.fn = "endOperation" => Reg(w) = Without(reg, key)

\* an entry one millisecond older than the TTL has just been evicted
C11_Witness ==
  /\ probe.fn = "isOperationActive"
  /\ probe.arg[2] \in DOMAIN probe.arg[3]
  /\ probe.arg[4] - probe.arg[3][probe.arg[2]] = Ttl(probe.arg[1]) + 1
  /\ probe.out = <<FALSE>>
  /\ probe.arg[2] \notin DOMAIN Reg(probe.arg[1])

----------------------------------------------------------------------------
(* Idempotence of the two cover triggers *)

\* task t takes the step
Steps(t) == tasks'[t] # tasks[t]

\* C12: an afterCreate or afterUpdate event on a report that has a cover starts
\* no run and does nothing itself: no task is added, no file is written, nothing
\* is uploaded and the report is not written, however often it is repeated.
C12_NoExtractionWithCover ==
  [][\A t \in 1..Len(tasks) :
       (At(t, ReportHandlers, "decide") /\ Top(t).cover # 0 /\ Steps(t)) =>
         /\ Len(tasks') = Len(tasks)
         /\ tasks'[t] = Pop(tasks[t])
         /\ reports' = reports
         /\ uploads' = uploads
         /\ tmpFiles' = tmpFiles
         /\ coverOperations' = coverOperations]_vars

\* a report created with a cover and edited once more: both handlers have
\* returned and nothing was started or uploaded
C12_Witness ==
  /\ Len(tasks) = 2
  /\ Quiescent
  /\ origin[1].kind = "create" /\ origin[2].kind = "edit"
  /\ reports[1].report_file # 0 /\ reports[1].cover # 0
  /\ uploads = 0
  /\ nfail = 0

\* C13: the explicit trigger on a report with a file and a cover goes on to the
\* extraction whatever the cover is; when the extraction succeeds the asset it
\* writes to the report is the freshly uploaded one, not the old cover, and the
\* response is the success response.
C13_ExplicitOverwrites ==
  [][\A t \in 1..Len(tasks) :
       /\ (/\ At(t, XC, "find") /\ Steps(t) /\ nfail' = nfail
           /\ FindReport(reports, Top(t).doc) # 0
           /\ reports[FindReport(reports, Top(t).doc)].report_file # 0
           /\ reports[FindReport(reports, Top(t).doc)].cover # 0)
            => (tasks'[t] # <<>> /\ tasks'[t][1].pc = "read")
       /\ (At(t, XC, "update") /\ Steps(t) /\ nfail' = nfail) =>
            /\ reports'[Top(t).id].cover = Top(t).asset
            /\ Top(t).asset \in {NextAsset(n) : n \in 0..(uploads - 1)}
            /\ Top(t).asset # Top(t).cover
       /\ (At(t, XC, "respond") /\ Steps(t)) => responses'[t] = <<"success">>]_vars

\* the trigger found a cover, uploaded a new asset and the report now refers to it
C13_Witness ==
  \E t \in 1..Len(tasks) :
    /\ At(t, XC, "respond")
    /\ Top(t).cover # 0
    /\ Top(t).asset # Top(t).cover
    /\ reports[Top(t).id].cover = Top(t).asset

----------------------------------------------------------------------------
(* An update of a report with a PDF and no cover *)

\* an awaited call that can complete does complete, and a queued setImmediate
\* callback runs
SpecReportFair ==
  /\ SpecReport
  /\ WF_vars(\E t \in 1..Len(tasks) : RunStart(t))
  /\ WF_vars(~Immediate /\ \E t \in 1..Len(tasks) : ReportStep(t) \/ ExtractStep(t))

\* the afterUpdate handler of task t has read a report with a PDF and no cover
WantsCover(t) ==
  /\ At(t, {"reportAfterUpdate"}, "decide")
  /\ needsCover(Top(t).file, Top(t).cover)
  /\ MediaFiles[Top(t).file] = [mime |-> "application/pdf", pages |-> 1]

\* the callback scheduled by an afterUpdate handler is about to run
UpdateCallback(t) == At(t, RUN, "start") /\ Top(t).by = "reportAfterUpdate"

\* the cover of the report is an asset uploaded by an extraction
CoverSet == reports # <<>> /\ reports[1].cover >= NextAsset(0)

\* the handler schedules a call of extractAndSetCover
Schedules(t) ==
  /\ Len(tasks') = Len(tasks) + 1
  /\ tasks'[Len(tasks')] =
       <<[Frame("extractAndSetCover", "start", Top(t).id, "") EXCEPT
            !.file = Top(t).file, !.by = Top(t).fn]>>

\* C14, as stated: an update event on a report with a PDF and no cover starts an
\* extraction run, and unless an external call fails the report's cover is
\* eventually an uploaded asset.
C14_UpdateSetsCover ==
  /\ [][\A t \in 1..Len(tasks) :
          /\ (WantsCover(t) /\ Steps(t)) => Schedules(t)
          /\ (UpdateCallback(t) /\ Steps(t)) => InRun(t, Top(t).id)']_vars
  /\ (\E t \in 1..Len(tasks) : WantsCover(t)) ~> (CoverSet \/ nfail > 0)

\* a run started by an afterUpdate callback on a PDF with a page
UpdateRun(t) ==
  /\ Running(t) /\ Top(t).fn \in RUN /\ Top(t).pc = "file"
  /\ Top(t).by = "reportAfterUpdate"
  /\ MediaFiles[Top(t).file] = [mime |-> "application/pdf", pages |-> 1]

\* C14, amended: the update event schedules a call of extractAndSetCover; the
\* call starts a run unless the key of the report is held by a run in flight, in
\* which case the event is dropped; the run writes the asset it uploaded to the
\* report's cover, and a run that started sets the cover to an uploaded asset
\* unless an external call fails.
C14_UpdateRunSetsCover ==
  /\ [][\A t \in 1..Len(tasks) :
          /\ (WantsCover(t) /\ Steps(t)) => Schedules(t)
          /\ (UpdateCallback(t) /\ Steps(t)) =>
               IF Held(t) THEN ReturnsAtOnce(t) ELSE InRun(t, Top(t).id)'
          /\ (At(t, RUN, "update") /\ Steps(t) /\ nfail' = nfail) =>
               /\ Top(t).asset \in {NextAsset(n) : n \in 0..(uploads - 1)}
               /\ reports'[Top(t).id].cover = Top(t).asset]_vars
  /\ (\E t \in 1..Len(tasks) : UpdateRun(t)) ~> (CoverSet \/ nfail > 0)

\* the run of an afterUpdate callback has finished and the cover is its asset
C14_Witness ==
  \E t \in 1..Len(tasks) :
    /\ origin[t].kind = "immediate"
    /\ responses[t] = <<"done">>
    /\ \E u \in 1..Len(tasks) : origin[u].kind \in {"update", "edit"} /\ u < t
    /\ Len(reports) = 1 /\ reports[1].cover >= NextAsset(0)
    /\ nfail = 0
    /\ \A u \in 1..Len(tasks) : origin[u].kind # "create"

----------------------------------------------------------------------------
(* The slug of the target variant *)

\* the run on top of task t (lifecycle or explicit) is at pc, and its awaited
\* write commits: the lifecycle event of the written row is pushed on the run
Commits(t, pc) ==
  /\ At(t, TT \cup CTL, pc)
  /\ Len(tasks'[t]) = Len(tasks[t]) + 1

\* the frame of that run after the step
After(t) == tasks'[t][Len(tasks[t])]

\* row i is the target variant of the run f, and not its source
IsTarget(arts, f, i) ==
  /\ i \in 1..Len(arts)
  /\ arts[i].documentId = f.doc /\ arts[i].locale = f.tgt
  /\ i # f.id

\* an external request has written row i in this behaviour
Overwritten(i) == \E u \in 1..Len(tasks) : origin[u] = [kind |-> "update", id |-> i]

----------------------------------------------------------------------------
(* The slug of every variant at rest *)

\* C16: whenever no handler and no run is in flight and no awaited call has
\* failed, the slug of every article variant is the string form of its own id,
\* whatever external creates and updates were made, and also for an update that
\* set another slug while a guard key of that article was active.
C16_SlugIsIdAtRest ==
  (Quiescent /\ nfail = 0) => \A i \in 1..Len(articles) : articles[i].slug = String(i)

----------------------------------------------------------------------------
(* The request and the run it causes *)

\* the handler fired by the request of task t has not returned to it
Waiting(t) == Running(t) /\ tasks[t][1].fn \in Handlers \cup ReportHandlers

\* C17: as long as the afterCreate/afterUpdate handler of a request has not
\* returned, the run it starts has made no translate call, and no frame of a run
\* (translation or cover extraction) is past its entry checks on the request's
\* call stack.
C17_HandlerReturnsFirst ==
  \A t \in 1..Len(tasks) :
    Waiting(t) =>
      /\ t \in DOMAIN translateCalls => translateCalls[t] = NoCalls
      /\ \A f \in Frames(t) : f.fn \in TT => f.pc \in {"find", "load", "translate"}
      /\ \A f \in Frames(t) : f.fn \notin RUN

----------------------------------------------------------------------------
(* Failures inside the handlers *)

\* what the requests and runs of the behaviour were answered with
Answers(t) == {responses[t][i] : i \in 1..Len(responses[t])}

\* C18: whatever read, write or external call fails while an afterCreate or
\* afterUpdate handler is being served, the write of the originating request is
\* not rejected by its handler.
C18_HandlersNeverThrow ==
  \A t \in 1..Len(tasks) :
    origin[t].kind \in {"create", "update", "edit"} => "rejected" \notin Answers(t)

----------------------------------------------------------------------------
(* The target locale of a source locale *)

MaxTagLen == 3

\* locale tags: every string of at most MaxTagLen letters over z, h, e, n, and
\* some tags of the i18n plugin
Letters == {"", "z", "h", "e", "n"}
RECURSIVE TagsUpTo(_)
TagsUpTo(n) == IF n = 0 THEN {""} ELSE {a \o b : a \in TagsUpTo(n - 1), b \in Letters}

LocaleInputs ==
  TagsUpTo(MaxTagLen)
    \cup {"en-US", "en-GB", "fr", "ZH", "Zh-TW", "zh-Hant-HK", "zh-TW", "zh-HK", "zh-Hans"}

\* one variant of docA, in any locale
InitLocale ==
  /\ articles \in {<<Row(1, "docA", l, "1", <<"Hello">>)>> : l \in LocaleInputs}
  /\ activeOperations = [k \in {} |-> 0]
  /\ now = StartMs
  /\ tasks = <<>>
  /\ origin = <<>>
  /\ translateCalls = <<>>
  /\ responses = <<>>
  /\ deeplKey = TRUE
  /\ nfail = 0
  /\ leaked = {}
  /\ reports = <<>>
  /\ coverOperations = [k \in {} |-> 0]
  /\ uploads = 0
  /\ tmpFiles = {}
  /\ escaped = 0
  /\ evicted = {}
  /\ probe = NoProbe
  /\ download = NoDownload
  /\ citations = NoCitations

\* one request, an update of the variant or the explicit trigger, and all it causes
NextLocale ==
  \/ tasks = <<>> /\ \E title \in TitleInputs : ExternalUpdate(1, "1", title)
  \/ tasks = <<>> /\ HttpTranslate(1)
  \/ \E t \in 1..Len(tasks) : LifecycleStep(t) \/ ControllerStep(t)

SpecLocale == InitLocale /\ [][NextLocale]_vars

\* the mapping of the specification
Expected(l) ==
  IF l = "en" THEN "zh-Hant-HK"
  ELSE IF Len(l) >= 2 /\ SubSeq(l, 1, 1) = "z" /\ SubSeq(l, 2, 2) = "h" THEN "en"
  ELSE ""

\* C20: the lifecycle path and the explicit trigger determine the same target
\* for every source locale: zh-Hant-HK for en, en for every locale starting with
\* zh, none for any other; a run past its entry checks translates into that
\* target; for a locale without a target no translate call is made and no row
\* is written.
C20_TargetLocale ==
  /\ \A i \in 1..Len(articles) :
       /\ TargetLocale(articles[i].locale) = Expected(articles[i].locale)
       /\ controllerTargetLocale(articles[i].locale) = Expected(articles[i].locale)
  /\ \A t \in 1..Len(tasks) : \A f \in Frames(t) :
       (f.fn \in TT \cup CTL /\ f.pc # "find") =>
         /\ f.src = articles[f.id].locale
         /\ f.tgt = Expected(f.src) /\ f.tgt # ""
  /\ Expected(articles[1].locale) = "" =>
       /\ articles = <<Row(1, "docA", articles[1].locale, "1", <<"Hello">>)>>
       /\ \A t \in 1..Len(tasks) : translateCalls[t] = NoCalls

\* the explicit trigger translates a variant whose locale starts with zh and is
\* none of the tags the lifecycle path compares by name
C20_Witness ==
  \E t \in 1..Len(tasks) :
    /\ At(t, CTL, "translate")
    /\ Top(t).src = "zhn" /\ Top(t).tgt = "en"
    /\ TargetLocale("zhn") = "en"

----------------------------------------------------------------------------
(* generateAPA(ctx) of the article controller *)

APA == {"generateAPA"}

\* the placeholder citation '<p>Retrieved from <a ...', a formatted citation,
\* and a citation typed in by an editor in the older 'Retrieved from' style
Placeholder == "Retrieved from"
Formatted   == "apa"
Manual      == "Doe (2019). Retrieved from x"


UrlItem(link, apa) == [link |-> link, apa |-> apa]

\* a test that passes over entries without a citation
onlyPlaceholders(urlItem) == urlItem.link /\ urlItem.apa = Placeholder

\* urlItem.link && (!urlItem.apa || urlItem.apa.includes('Retrieved from'))
needsProcessing(urlItem) ==
  urlItem.link /\ (urlItem.apa = "" \/ includes(urlItem.apa, "Retrieved from"))

\* the next entry from j on that is processed, 0 when the loops are over
NextUrl(urls, j) ==
  LET todo == {k \in j..Len(urls) : needsProcessing(urls[k])}
  IN IF todo = {} THEN 0 ELSE CHOOSE k \in todo : \A m \in todo : k <= m

\* an update after every entry
saveNow(j) == "save"

\* where generateAPA goes on after an entry: the loops go on while an entry is
\* left (j # 0); after them comes the test of the counts, true by now
afterEntry(j) == IF j = 0 THEN "save" ELSE "cite"

\* documents().findOne({ documentId }): a row of the document, 0 for none
FindDocument(arts, doc) ==
  LET hits == {i \in 1..Len(arts) : arts[i].documentId = doc}
  IN IF hits = {} THEN 0 ELSE CHOOSE i \in hits : \A m \in hits : i <= m

\* POST /api/articles/:documentId/generate-apa
HttpApa(doc) ==
  /\ tasks' = Append(tasks, <<[Frame("generateAPA", "find", 0, "") EXCEPT !.doc = doc]>>)
  /\ origin' = Append(origin, [kind |-> "apa", id |-> 0])
  /\ responses' = Append(responses, <<>>)
  /\ translateCalls' = Append(translateCalls, NoCalls)
  /\ UNCHANGED <<download, citations, probe, rvars, articles, activeOperations, now, deeplKey, nfail, leaked>>

\* an awaited call throws: catch (error) { return ctx.internalServerError(...) }
ApaThrow(t, pc) ==
  /\ At(t, APA, pc)
  /\ CanFail
  /\ nfail' = nfail + 1
  /\ Respond(t, "internalServerError")
  /\ UNCHANGED <<download, citations, probe, rvars, articles, activeOperations, now, origin, translateCalls,
                 deeplKey, leaked>>

\* lines 383-423: the documentId, the article with its blocks; without an entry
\* to process nothing is written and the counts are sent
ApaFind(t) ==
  \/ At(t, APA, "find") /\ Top(t).doc # "" /\ ApaThrow(t, "find")
  \/ /\ At(t, APA, "find")
     /\ LET f   == Top(t)
            hit == FindDocument(articles, f.doc)
        IN IF f.doc = "" THEN Respond(t, "badRequest")
           ELSE IF hit = 0 THEN Respond(t, "notFound")
           ELSE IF NextUrl(citations[f.doc], 1) = 0 THEN Respond(t, "success")
           ELSE /\ TTGoto(t, [f EXCEPT !.id = hit, !.urls = citations[f.doc],
                                       !.j = NextUrl(citations[f.doc], 1)], "cite")
                /\ UNCHANGED responses
     /\ UNCHANGED <<download, citations, probe, rvars, articles, activeOperations, now, origin, translateCalls,
                    deeplKey, nfail, leaked>>

\* lines 426-438: getAPACitation(urlItem.link) answers with a citation, or with
\* null when every provider failed; then the next entry, or the update
ApaCite(t) ==
  \/ ApaThrow(t, "cite")
  \/ /\ At(t, APA, "cite")
     /\ LET f == Top(t) IN
        \E ok \in BOOLEAN :
          LET urls == [f.urls EXCEPT ![f.j].apa = IF ok THEN Formatted ELSE Placeholder]
              g    == [f EXCEPT !.urls = urls,
                                !.updatedCount = IF ok THEN @ + 1 ELSE @,
                                !.errorCount = IF ok THEN @ ELSE @ + 1,
                                !.j = NextUrl(urls, f.j + 1)]
          IN /\ IF ok THEN UNCHANGED nfail ELSE CanFail /\ nfail' = nfail + 1
             /\ TTGoto(t, g, afterEntry(g.j))
     /\ UNCHANGED <<download, citations, probe, rvars, articles, activeOperations, now, origin, translateCalls,
                    responses, deeplKey, leaked>>

\* lines 445-453: documents().update({ documentId, data: { blocks } }) commits
\* and fires afterUpdate
ApaSave(t) ==
  \/ ApaThrow(t, "save")
  \/ /\ At(t, APA, "save")
     /\ CanPush(t)
     /\ LET f == Top(t) IN
          /\ citations' = [citations EXCEPT ![f.doc] = f.urls]
          /\ tasks' = [tasks EXCEPT ![t] =
                FireEvent(@, [f EXCEPT !.updates = @ + 1], "respond", "afterUpdate",
                          articles[f.id])]
     /\ UNCHANGED <<download, probe, rvars, articles, activeOperations, now, origin, translateCalls,
                    responses, deeplKey, nfail, leaked>>

\* lines 455-460: ctx.send({ success: true, updatedCount, errorCount })
ApaRespond(t) ==
  /\ At(t, APA, "respond")
  /\ Respond(t, "success")
  /\ UNCHANGED <<download, citations, probe, rvars, articles, activeOperations, now, origin, translateCalls,
                 deeplKey, nfail, leaked>>

ApaStep(t) ==
  \/ ApaFind(t)
  \/ ApaCite(t)
  \/ ApaSave(t)
  \/ ApaRespond(t)

----------------------------------------------------------------------------
(* The three explicit triggers *)

\* rows a trigger can be pointed at: sound ones, one in a locale without target,
\* one without locale, one without documentId
TriggerArticles ==
  {<<>>, <<EnRow>>, <<EnRow, ZhRow>>,
   <<Row(1, "docA", "fr", "1", <<"Hello">>)>>,
   <<Row(1, "docA", "", "1", <<"Hello">>)>>,
   <<Row(1, "", "en", "1", <<"Hello">>)>>}

TriggerReports ==
  {<<>>, <<ReportRow(1, "repA", 0, 0)>>, <<ReportRow(1, "repA", 1, 0)>>,
   <<ReportRow(1, "repA", 1, 3)>>, <<ReportRow(1, "repA", 2, 0)>>}

TriggerCitations ==
  {<<UrlItem(TRUE, "")>>,
   <<UrlItem(TRUE, ""), UrlItem(TRUE, Placeholder)>>,
   <<UrlItem(TRUE, Formatted), UrlItem(FALSE, "")>>}

InitTriggers ==
  /\ \/ articles \in TriggerArticles /\ deeplKey \in BOOLEAN
        /\ reports = <<>> /\ citations = NoCitations
     \/ articles = <<>> /\ deeplKey = TRUE
        /\ reports \in TriggerReports /\ citations = NoCitations
     \/ articles = <<EnRow>> /\ deeplKey = TRUE
        /\ reports = <<>> /\ citations \in [DocumentIds -> TriggerCitations]
  /\ activeOperations = [k \in {} |-> 0]
  /\ now = StartMs
  /\ tasks = <<>>
  /\ origin = <<>>
  /\ translateCalls = <<>>
  /\ responses = <<>>
  /\ nfail = 0
  /\ leaked = {}
  /\ coverOperations = [k \in {} |-> 0]
  /\ uploads = 0
  /\ tmpFiles = {}
  /\ escaped = 0
  /\ evicted = {}
  /\ probe = NoProbe
  /\ download = NoDownload

\* one explicit request and all it causes; the handler fired by the cover write
\* of extractCover finds the cover set and schedules no run
NextTriggers ==
  \/ tasks = <<>> /\ \E id \in 1..(Len(articles) + 1) : HttpTranslate(id)
  \/ tasks = <<>> /\ \E doc \in {"repA", "repX"} : HttpExtract(doc)
  \/ tasks = <<>> /\ \E doc \in DocumentIds \cup {"docX", ""} : HttpApa(doc)
  \/ \E t \in 1..Len(tasks) : LifecycleStep(t) \/ ControllerStep(t)
  \/ \E t \in 1..Len(tasks) :
       ReportHandlerRead(t) \/ ReportHandlerDecide(t) \/ ExtractStep(t)
  \/ \E t \in 1..Len(tasks) : ApaStep(t)

SpecTriggers == InitTriggers /\ [][NextTriggers]_vars


\* task t serves an explicit request
IsTrigger(t) == origin[t].kind \in {"translate", "extract", "apa"}

ErrorResponses == {"badRequest", "notFound", "internalServerError"}

\* the step ends task t / answers it with one error response
Ends(t) == Running(t) /\ tasks'[t] = <<>>
AnsweredError(t) == Len(responses'[t]) = 1 /\ responses'[t][1] \in ErrorResponses

\* the step is taken by the controller itself, not by a handler its write fired
OwnStep(t) == Running(t) /\ Len(tasks[t]) = 1 /\ Steps(t)

\* a call of the controller of task t has failed and the controller goes on: the
\* upload came back empty, or a citation could not be resolved
Failed(t) ==
  /\ Running(t)
  /\ \/ tasks[t][1].fn \in XC /\ tasks[t][1].pc = "remove" /\ tasks[t][1].asset = 0
     \/ tasks[t][1].fn \in APA /\ tasks[t][1].errorCount > 0

\* an explicit request has one response when it is over and none before
OneResponse ==
  \A t \in 1..Len(tasks) :
    IsTrigger(t) => Len(responses[t]) = IF Running(t) THEN 0 ELSE 1

\* a failing call of the controller, or a rejection by a handler its write
\* fired, is answered with an error or remembered; a validation failure
\* touches neither the storage nor an external service
FailuresAnswered ==
  \A t \in 1..Len(tasks) :
    IsTrigger(t) =>
      /\ (OwnStep(t) /\ nfail' > nfail) =>
           \/ Ends(t) /\ AnsweredError(t)
           \/ Failed(t)'
      /\ (Running(t) /\ Top(t).fn \in ReportHandlers /\ Steps(t) /\ nfail' > nfail) =>
           Ends(t) /\ AnsweredError(t)
      /\ (OwnStep(t) /\ Top(t).pc = "find" /\ Ends(t) /\ AnsweredError(t)
            /\ nfail' = nfail) =>
           /\ UNCHANGED <<articles, reports, citations, uploads, tmpFiles>>
           /\ UNCHANGED <<translateCalls, activeOperations, coverOperations>>
           /\ Len(tasks') = Len(tasks)

\* C19, as stated: the explicit triggers answer every failure with exactly one
\* error response and let no exception escape, and a validation failure makes
\* no storage write and no external call.
C19_FailuresAnsweredWithError ==
  /\ []OneResponse
  /\ [][FailuresAnswered]_vars
  /\ [][\A t \in 1..Len(tasks) :
          (IsTrigger(t) /\ Failed(t) /\ Steps(t)) =>
            IF Ends(t) THEN AnsweredError(t) ELSE Failed(t)']_vars

\* C19, amended: as stated for translateArticle and extractCover; generateAPA
\* answers a failed storage call with one error response, while a citation that
\* no provider resolves is not a failure of the request: the entry gets the
\* placeholder, is counted, and the request is answered with success once the
\* blocks are stored.
C19_FailuresAnswered ==
  /\ []OneResponse
  /\ [][FailuresAnswered]_vars
  /\ [][\A t \in 1..Len(tasks) :
          (IsTrigger(t) /\ Failed(t) /\ Steps(t)) =>
            IF ~Ends(t) THEN Failed(t)'
            ELSE IF tasks[t][1].fn \in XC THEN AnsweredError(t)
            ELSE \/ AnsweredError(t)
                 \/ /\ responses'[t] = <<"success">>
                    /\ citations[tasks[t][1].doc] = tasks[t][1].urls
                    /\ \E k \in 1..Len(tasks[t][1].urls) :
                         tasks[t][1].urls[k].apa = Placeholder]_vars

\* the translate call of an explicit translation failed and the request was
\* answered with one badRequest
C19_Witness ==
  \E t \in 1..Len(tasks) :
    /\ origin[t].kind = "translate" /\ ~Running(t)
    /\ nfail = 1 /\ translateCalls[t]["zh-Hant-HK"] = 1
    /\ responses[t] = <<"badRequest">>
    /\ Len(articles) = 1


----------------------------------------------------------------------------
(* Translation without a provider key *)

\* the top frame of task t is a triggerTranslation run
InTrigger(t) == Running(t) /\ Top(t).fn \in TT

\* C21: while DEEPL_API_KEY is not configured, a triggerTranslation run started
\* by a lifecycle handler never gets past its key check: its only step returns
\* through the handler that awaits it, no translate call is made, no article row
\* is created or changed, nothing is thrown at the caller and no request is
\* rejected.
C21_DisabledWithoutKey ==
  /\ [](~deeplKey =>
          /\ \A t \in 1..Len(tasks) :
               /\ translateCalls[t] = NoCalls
               /\ "rejected" \notin Answers(t)
               /\ \A i \in 1..Len(tasks[t]) :
                    tasks[t][i].fn \in TT => tasks[t][i].pc = "find"
          /\ escaped = 0)
  /\ [][\A t \in 1..Len(tasks) :
          (~deeplKey /\ InTrigger(t) /\ Steps(t)) =>
            /\ tasks'[t] = Pop(Pop(tasks[t]))
            /\ articles' = articles
            /\ translateCalls' = translateCalls
            /\ responses' = responses]_vars

\* a run has reached the key check without a key (the reverse key it started is
\* what it left behind) and the request that caused it is over
C21_Witness ==
  /\ ~deeplKey
  /\ leaked # {}
  /\ tasks # <<>> /\ Quiescent
  /\ \A t \in 1..Len(tasks) : translateCalls[t] = NoCalls


----------------------------------------------------------------------------
(* The translate service called on its own *)

MaxTextLen == 2   \* characters of a text handed to translateText
MaxBlocks  == 2   \* blocks of a dynamic zone handed to translateBlocks

RECURSIVE TextsUpTo(_)
TextsUpTo(n) ==
  IF n = 0 THEN {<<>>}
  ELSE TextsUpTo(n - 1)
         \cup {Append(text, c) : text \in TextsUpTo(n - 1), c \in {Space, "a"}}

TextInputs == TextsUpTo(MaxTextLen)

ServiceLocales ==
  {"en", "zh-Hant-HK", "zh-TW", "zh", "fr", "en-GB", "en-AU", "zh-Hans",
   "zh-Hans-CN", "zh-CN", "ZH-TW", ""}

ServiceSources == {"en", "zh-Hant-HK", "zh-Hans", "ZH-TW", "fr"}

\* rich-text and quote blocks with their texts set, blank or not set, and the
\* components that are copied, with texts a translation would change
BlockInputs ==
  {Block(RichText, 7, NoText, body) : body \in {NoText, <<Space>>, <<"a">>}}
    \cup {Block(Quote, 7, title, body) :
            title \in {NoText, <<"a">>}, body \in {NoText, <<Space>>, <<"a">>}}
    \cup {Block(component, 7, <<"a">>, <<"a">>) :
            component \in {Media, Slider, "shared.reference"}}

RECURSIVE BlocksUpTo(_)
BlocksUpTo(n) ==
  IF n = 0 THEN {<<>>}
  ELSE BlocksUpTo(n - 1)
         \cup {Append(blocks, b) : blocks \in BlocksUpTo(n - 1), b \in BlockInputs}

\* the article whose title or whose blocks the service is called on
InitService ==
  /\ \/ \E text \in TextInputs : articles = <<Row(1, "docA", "en", "1", text)>>
     \/ \E blocks \in BlocksUpTo(MaxBlocks) \ {<<>>} :
          articles = <<WithFields(EnRow, NoText, NoText, blocks)>>
  /\ activeOperations = [k \in {} |-> 0]
  /\ now = StartMs
  /\ tasks = <<>>
  /\ origin = <<>>
  /\ translateCalls = <<>>
  /\ responses = <<>>
  /\ deeplKey \in BOOLEAN
  /\ nfail = 0
  /\ leaked = {}
  /\ reports = <<>>
  /\ coverOperations = [k \in {} |-> 0]
  /\ uploads = 0
  /\ tmpFiles = {}
  /\ escaped = 0
  /\ evicted = {}
  /\ probe = NoProbe
  /\ download = NoDownload
  /\ citations = NoCitations

\* translateService.translateText(text, sourceLang, targetLang)
ServiceText(sourceLang, targetLang, ok) ==
  /\ articles[1].blocks = <<>>
  /\ probe' = [fn |-> "translateText",
               arg |-> <<articles[1].title, sourceLang, targetLang, deeplKey, ok>>,
               out |-> translateText(articles[1].title, sourceLang, targetLang,
                                     deeplKey, ok)]
  /\ UNCHANGED <<download, idle, activeOperations, coverOperations, now>>

\* translateService.translateBlocks(blocks, sourceLocale, targetLocale); no
\* statement of it assigns to blocks or to one of its elements
ServiceBlocks(sourceLocale, targetLocale, failAt) ==
  /\ articles[1].blocks # <<>>
  /\ probe' = [fn |-> "translateBlocks",
               arg |-> <<articles[1].blocks, sourceLocale, targetLocale, deeplKey,
                         failAt>>,
               out |-> translateBlocks(articles[1].blocks, sourceLocale,
                                       targetLocale, deeplKey, failAt, 0)]
  /\ UNCHANGED <<download, idle, activeOperations, coverOperations, now>>

NextService ==
  \/ \E sourceLang \in ServiceSources, targetLang \in ServiceLocales, ok \in BOOLEAN :
       ServiceText(sourceLang, targetLang, ok)
  \/ \E sourceLocale \in {"en", "zh-Hant-HK"}, failAt \in 0..(2 * MaxBlocks) :
       ServiceBlocks(sourceLocale, TargetLocale(sourceLocale), failAt)

SpecService == InitService /\ [][NextService]_vars

\* the text is empty or consists of whitespace only
OnlySpaces(text) == \A i \in 1..Len(text) : text[i] = Space

\* C23 as stated: translateText on an empty or whitespace-only text returns the
\* text it was given and calls the provider not once, whatever the locales.
C23_BlankIsReturned ==
  (probe.fn = "translateText" /\ OnlySpaces(probe.arg[1])) =>
    /\ ~probe.out.threw
    /\ probe.out.out = probe.arg[1]
    /\ probe.out.calls = 0

\* C23, amended: with DEEPL_API_KEY set, translateText on an empty or
\* whitespace-only text returns the text it was given; without the key it throws
\* before it looks at the text; in both cases the provider is not called,
\* whatever the locales.  A text with any other character is sent to the provider.
C23_BlankIsReturnedWithKey ==
  probe.fn = "translateText" =>
    IF OnlySpaces(probe.arg[1])
    THEN /\ probe.out.calls = 0
         /\ IF probe.arg[4]
            THEN ~probe.out.threw /\ probe.out.out = probe.arg[1]
            ELSE probe.out.threw
    ELSE probe.arg[4] => probe.out.calls = 1

\* translateText was called with the key set on a text of two spaces
C23_Witness ==
  /\ probe.fn = "translateText"
  /\ probe.arg[1] = <<Space, Space>>
  /\ probe.arg[4]
  /\ probe.out = Returned(<<Space, Space>>, 0)

\* what a text becomes when it is translated into the target locale
InLocale(text, targetLocale) ==
  IF OnlySpaces(text) THEN text ELSE Append(text, TargetLangCode(targetLocale))

\* C24: when translateBlocks returns, its result has one block per input block,
\* in the same order and of the same component, without id; a rich-text block
\* has its body translated, a quote block its title and its body, every other
\* block has the title and body it had; the blocks passed in are as they were.
C24_BlocksTranslated ==
  (probe.fn = "translateBlocks" /\ ~probe.out.threw) =>
    LET blocks == probe.arg[1]
        out    == probe.out.out
        tgt    == probe.arg[3]
    IN /\ Len(out) = Len(blocks)
       /\ articles[1].blocks = blocks
       /\ \A i \in 1..Len(blocks) :
            /\ out[i].component = blocks[i].component
            /\ out[i].id = NoId
            /\ blocks[i].id # NoId
            /\ out[i].body =
                 IF blocks[i].component \in {RichText, Quote}
                 THEN InLocale(blocks[i].body, tgt) ELSE blocks[i].body
            /\ out[i].title =
                 IF blocks[i].component = Quote
                 THEN InLocale(blocks[i].title, tgt) ELSE blocks[i].title

\* a quote followed by a media block with a title came back translated
C24_Witness ==
  /\ probe.fn = "translateBlocks"
  /\ ~probe.out.threw
  /\ probe.arg[1] = <<Block(Quote, 7, <<"a">>, <<"a">>), Block(Media, 7, <<"a">>, <<"a">>)>>
  /\ probe.out.out = <<Block(Quote, NoId, <<"a", "ZH-HANT">>, <<"a", "ZH-HANT">>),
                       Block(Media, NoId, <<"a">>, <<"a">>)>>
  /\ probe.out.calls = 2


----------------------------------------------------------------------------
(* One translation of an article with a description, a cover text and blocks *)

\* a description one character over the schema's limit
\* a text of n characters
XText(n) == [i \in 1..n |-> "x"]

LongText == XText(DescriptionMax + 1)

SourceInputs ==
  {WithFields(EnRow, description, cover_text, blocks) :
     description \in {NoText, <<"d">>, XText(DescriptionMax - 1),
                      XText(DescriptionMax), LongText},
     cover_text \in {NoText, <<"c">>},
     blocks \in {<<>>,
                 <<Block(RichText, 7, NoText, <<"a">>)>>,
                 <<Block(Quote, 7, <<"a">>, <<"a">>), Block(Media, 8, <<"a">>, <<"a">>)>>}}

\* the target variant as an earlier translation or an editor left it
TargetInputs ==
  {ZhRow,
   WithFields(ZhRow, <<"old">>, <<"old">>, <<Block(RichText, 9, NoText, <<"old">>)>>)}

InitFields ==
  /\ \E source \in SourceInputs :
       \/ articles = <<source>>
       \/ \E target \in TargetInputs : articles = <<source, target>>
  /\ activeOperations = [k \in {} |-> 0]
  /\ now = StartMs
  /\ tasks = <<>>
  /\ origin = <<>>
  /\ translateCalls = <<>>
  /\ responses = <<>>
  /\ deeplKey = TRUE
  /\ nfail = 0
  /\ leaked = {}
  /\ reports = <<>>
  /\ coverOperations = [k \in {} |-> 0]
  /\ uploads = 0
  /\ tmpFiles = {}
  /\ escaped = 0
  /\ evicted = {}
  /\ probe = NoProbe
  /\ download = NoDownload
  /\ citations = NoCitations

\* one request, an update of the source or the explicit trigger, and all it causes
NextFields ==
  \/ tasks = <<>> /\ \E title \in TitleInputs : ExternalUpdate(1, "1", title)
  \/ tasks = <<>> /\ HttpTranslate(1)
  \/ \E t \in 1..Len(tasks) : LifecycleStep(t) \/ ControllerStep(t)

SpecFields == InitFields /\ [][NextFields]_vars

\* the translate call of the run on top of task t fails in this step
TranslateFails(t) ==
  /\ At(t, TT, "translate")
  /\ Steps(t)
  /\ nfail' = nfail + 1

\* C22: whichever provider call of a lifecycle run's translateArticle fails, the
\* calls after it are not made and nothing is returned; the run ends in that
\* step, returning through its handler, with one translateArticle call counted
\* and not repeated, and no article row, source or target, is created or changed.
C22_FailureDiscardsRun ==
  /\ [](\A t \in 1..Len(tasks) :
          At(t, TT, "translate") =>
            \A failAt \in 1..ProviderCalls(Top(t)) :
              translateArticle(fullArticle(Top(t)), Top(t).src, Top(t).tgt,
                               deeplKey, failAt) = Threw(failAt))
  /\ [][\A t \in 1..Len(tasks) :
          TranslateFails(t) =>
            /\ articles' = articles
            /\ tasks'[t] = Pop(Pop(tasks[t]))
            /\ translateCalls'[t] =
                 [translateCalls[t] EXCEPT ![Top(t).tgt] = @ + 1]]_vars

\* an update of a source with a description, a cover text and two blocks: the
\* run's translation failed, the run is over, and the rows are as the update
\* left them, without a target
C22_Witness ==
  /\ Len(tasks) = 1 /\ origin[1].kind = "update" /\ tasks[1] = <<>>
  /\ nfail = 1
  /\ translateCalls[1]["zh-Hant-HK"] = 1
  /\ Len(articles) = 1
  /\ articles[1].description = <<"d">>
  /\ Len(articles[1].blocks) = 2


\* the blocks of a target that carry the source's blocks in the target locale
BlocksInLocale(blocks, source, targetLocale) ==
  /\ Len(blocks) = Len(source)
  /\ \A i \in 1..Len(source) :
       /\ blocks[i].component = source[i].component
       /\ blocks[i].body =
            IF source[i].component \in {RichText, Quote}
            THEN InLocale(source[i].body, targetLocale) ELSE source[i].body
       /\ blocks[i].title =
            IF source[i].component = Quote
            THEN InLocale(source[i].title, targetLocale) ELSE source[i].title

\* every translatable field the source has is, translated, the target's
IsTranslationOf(target, source) ==
  /\ target.title = InLocale(source.title, target.locale)
  /\ source.description # NoText =>
       target.description = InLocale(source.description, target.locale)
  /\ source.cover_text # NoText =>
       target.cover_text = InLocale(source.cover_text, target.locale)
  /\ BlocksInLocale(target.blocks, source.blocks, target.locale)

\* the run or explicit translation on top of task t writes its translation to
\* the target variant it found
UpdatesTarget(t) ==
  /\ At(t, TT \cup CTL, "write")
  /\ Top(t).tid # 0
  /\ Steps(t)
  /\ articles' # articles

\* C25: when a translation, started by a lifecycle handler or by the explicit
\* trigger, writes to a target variant that already exists, then after the write
\* the title, the description, the cover text and the texts of the rich-text and
\* quote blocks of the target are the translations of the source variant's.
C25_TargetIsTranslation ==
  [][\A t \in 1..Len(tasks) :
       UpdatesTarget(t) =>
         IsTranslationOf(articles'[Top(t).tid], articles'[Top(t).id])]_vars


----------------------------------------------------------------------------
(* Cover extraction: MIME type, transient file, pages *)

\* task t is extracting, automatically or on request, from a file that is no PDF
OnNonPdf(t) ==
  /\ Running(t)
  /\ Top(t).fn \in RUN \cup XC
  /\ Top(t).file \in 1..Len(MediaFiles)
  /\ MediaFiles[Top(t).file].mime # "application/pdf"

\* C26: a cover extraction on a source file whose MIME type is not
\* application/pdf, started by a lifecycle handler or by the explicit trigger,
\* writes no transient file, uploads nothing, leaves the report as it is and,
\* unless one of its calls fails, is not answered with an error.
C26_NonPdfIsSkipped ==
  [][\A t \in 1..Len(tasks) :
       (OnNonPdf(t) /\ Steps(t)) =>
         /\ tmpFiles' = tmpFiles
         /\ uploads' = uploads
         /\ reports' = reports
         /\ nfail' = nfail =>
              \A i \in 1..Len(responses'[t]) :
                responses'[t][i] \notin {"error", "internalServerError"}]_vars

\* C27: a cover extraction that has ended, automatic or explicit, successful or
\* failed, has left no transient PNG file behind.
C27_TransientFileRemoved ==
  \A t \in 1..Len(tasks) : ~Running(t) => t \notin tmpFiles

\* the step of task t is the render step of an automatic run and it fails: the
\* PDF has no page 0, or the render of page 0 throws
RenderFails(t) ==
  /\ At(t, RUN, "read")
  /\ Steps(t)
  /\ \/ MediaFiles[Top(t).file].pages = 0 /\ nfail' = nfail
     \/ responses'[t] = Append(responses[t], "error")

\* C28: when the PDF of an automatic run has no page, or its first page fails to
\* render, the run ends in that step as a failure: nothing is written to disk or
\* uploaded, the report keeps its cover, the key extract-cover-<id> is no longer
\* registered, and the run goes on to no other page or step.
C28_RenderFailureEndsRun ==
  [][\A t \in 1..Len(tasks) :
       RenderFails(t) =>
         /\ tasks'[t] = <<>>
         /\ responses'[t] = Append(responses[t], "error")
         /\ uploads' = uploads
         /\ tmpFiles' = tmpFiles
         /\ reports' = reports
         /\ coverKey(Top(t).id) \notin DOMAIN coverOperations']_vars

\* a report was created with a PDF without pages: its run has ended as a failure
\* with no call failing, nothing uploaded, no cover and no key registered
C28_Witness ==
  /\ Len(reports) = 1 /\ reports[1].report_file = 2 /\ reports[1].cover = 0
  /\ \E t \in 1..Len(tasks) : ~Running(t) /\ responses[t] = <<"error">>
  /\ nfail = 0 /\ uploads = 0 /\ tmpFiles = {}
  /\ DOMAIN coverOperations = {}


----------------------------------------------------------------------------
(* downloadFileToBuffer(url) against a server *)

MaxRedirects == 4   \* redirects counted; the count stays there from then on

Urls == {"https://a", "https://b", "https://c"}

\* what a server answers a GET with: a status code and a location header
HttpResponses ==
  {[statusCode |-> code, location |-> ""] : code \in {200, 302, 404}}
    \cup {[statusCode |-> 302, location |-> url] : url \in Urls}

\* a server: its answer for every url
Servers == [Urls -> HttpResponses]

InitDownload ==
  /\ download \in {[server |-> server, url |-> "https://a", redirects |-> 0,
                    state |-> "pending"] : server \in Servers}
  /\ articles = <<>>
  /\ activeOperations = [k \in {} |-> 0]
  /\ now = StartMs
  /\ tasks = <<>>
  /\ origin = <<>>
  /\ translateCalls = <<>>
  /\ responses = <<>>
  /\ deeplKey = TRUE
  /\ nfail = 0
  /\ leaked = {}
  /\ reports = <<>>
  /\ coverOperations = [k \in {} |-> 0]
  /\ uploads = 0
  /\ tmpFiles = {}
  /\ escaped = 0
  /\ evicted = {}
  /\ probe = NoProbe
  /\ citations = NoCitations

\* the response callback of protocol.get(url, ...): a 3xx with a location
\* header calls downloadFileToBuffer(location) and settles as that call
\* settles, any other status but 200 rejects, 200 resolves with the body
DownloadResponse ==
  /\ download.state = "pending"
  /\ LET response == download.server[download.url] IN
       download' =
         IF response.statusCode >= 300 /\ response.statusCode < 400
            /\ response.location # ""
         THEN [download EXCEPT !.url = response.location,
                               !.redirects = IF @ < MaxRedirects THEN @ + 1 ELSE @]
         ELSE IF response.statusCode # 200
         THEN [download EXCEPT !.state = "rejected"]
         ELSE [download EXCEPT !.state = "resolved"]
  /\ UNCHANGED <<idle, activeOperations, coverOperations, now, probe>>

\* .on('error', reject): the request fails
DownloadError ==
  /\ download.state = "pending"
  /\ download' = [download EXCEPT !.state = "rejected"]
  /\ UNCHANGED <<idle, activeOperations, coverOperations, now, probe>>

NextDownload == DownloadResponse \/ DownloadError

\* every request is answered or fails
SpecDownload ==
  InitDownload /\ [][NextDownload]_vars /\ WF_vars(NextDownload)

\* C29: whatever the server answers, downloadFileToBuffer settles: it follows
\* a bounded number of redirects and then its promise is resolved or rejected.
C29_DownloadSettles == <>(download.state \in {"resolved", "rejected"})


----------------------------------------------------------------------------
(* Citations after generateAPA *)

\* task t is a generateAPA request that was answered with success
ApaSucceeded(t) ==
  /\ origin[t].kind = "apa"
  /\ ~Running(t)
  /\ responses[t] = <<"success">>

\* C30: once generateAPA has answered with success, every url entry with a link
\* in the reference blocks of the article, as stored, has a citation that is not
\* empty: a formatted citation or the 'Retrieved from' placeholder.
C30_EveryLinkHasCitation ==
  \A t \in 1..Len(tasks) :
    ApaSucceeded(t) =>
      \A d \in DocumentIds :
        \A k \in 1..Len(citations[d]) :
          citations[d][k].link => citations[d][k].apa \in {Formatted, Placeholder}

\* generateAPA on an article with an entry without citation and an entry with a
\* placeholder: the first was resolved, the second was not and has the
\* placeholder again, both are stored and the request was answered with success
C30_Witness ==
  /\ \E t \in 1..Len(tasks) : ApaSucceeded(t)
  /\ citations["docA"] = <<UrlItem(TRUE, Formatted), UrlItem(TRUE, Placeholder)>>
  /\ nfail = 1


\* ---------------------------------------------------------------------------
\* Citation resolver (src/unnamed/part_007): extractDOI and getAPACitation.
\* A URL is a string; a regular-expression match is the pair <<from, to>> of
\* the first and last index of its capture group, NoMatch when it fails.
\* ---------------------------------------------------------------------------
Digits == {"0", "1", "2", "3", "4", "5", "6", "7", "8", "9"}

Least(S) == CHOOSE x \in S : \A y \in S : x <= y

\* the literal lit stands in s at index i
Has(s, i, lit) ==
  IF i < 1 \/ i + Len(lit) - 1 > Len(s) THEN FALSE
  ELSE SubSeq(s, i, i + Len(lit) - 1) = lit

\* length of the longest run of characters of class from index i on
RECURSIVE RunIn(_, _, _)
RunIn(s, i, class) ==
  IF i > Len(s) THEN 0
  ELSE IF Char(s, i) \notin class THEN 0
  ELSE 1 + RunIn(s, i + 1, class)

\* length of the longest run of characters outside stops from index i on
RECURSIVE RunNotIn(_, _, _)
RunNotIn(s, i, stops) ==
  IF i > Len(s) THEN 0
  ELSE IF Char(s, i) \in stops THEN 0
  ELSE 1 + RunNotIn(s, i + 1, stops)

NoMatch == <<>>

\* url.match(/<marker><tail>/i): the leftmost place of the marker from which
\* the tail matches; the /i flag is applied by comparing lower-cased text
FirstMatch(url, marker, TailAt(_, _)) ==
  LET low    == toLowerCase(url)
      starts == {i \in 1..Len(url) :
                   Has(low, i, marker) /\ TailAt(url, i + Len(marker)) # NoMatch}
  IN IF starts = {} THEN NoMatch ELSE TailAt(url, Least(starts) + Len(marker))

\* (.+?)(?:\?|$) : at least one character, then up to the next '?' or the end
lazyToQuery(url, a) ==
  IF a > Len(url) THEN NoMatch
  ELSE LET qs == {q \in (a + 1)..Len(url) : Char(url, q) = "?"}
       IN <<a, IF qs = {} THEN Len(url) ELSE Least(qs) - 1>>

\* (.+) : everything up to the end
greedyToEnd(url, a) == IF a > Len(url) THEN NoMatch ELSE <<a, Len(url)>>

\* (?:abs\/|full\/)? in front of a tail: taken when the tail matches behind it
optionalAbsFull(url, a, TailAt(_, _)) ==
  LET low  == toLowerCase(url)
      skip == IF Has(low, a, "abs/") THEN 4 ELSE IF Has(low, a, "full/") THEN 5 ELSE 0
  IN IF TailAt(url, a + skip) # NoMatch THEN TailAt(url, a + skip) ELSE TailAt(url, a)

doiPath(url, a) == optionalAbsFull(url, a, lazyToQuery)

\* (10\.\d{n,}\/[^<stops>]+)
prefixedDoi(url, a, n, stops) ==
  LET d == RunIn(url, a + 3, Digits)
      r == RunNotIn(url, a + 4 + d, stops)
  IN IF Has(url, a, "10.") /\ d >= n /\ Has(url, a + 3 + d, "/") /\ r >= 1
     THEN <<a, a + 3 + d + r>> ELSE NoMatch

bareDoi(url, a) == prefixedDoi(url, a, 4, {" ", "/", "?", "#"})

PathStops == {"/", "?", " "}

\* (s\d+[^\/\?\s]+)
natureId(url, a) ==
  LET d == RunIn(url, a + 1, Digits)
      r == RunNotIn(url, a + 1, PathStops)
  IN IF Has(toLowerCase(url), a, "s") /\ d >= 1 /\ r >= 2
     THEN <<a, a + r>> ELSE NoMatch

\* (\d+\/\d+\/[^\/\?\s]+)
pnasId(url, a) ==
  LET d1 == RunIn(url, a, Digits)
      d2 == RunIn(url, a + d1 + 1, Digits)
      r  == RunNotIn(url, a + d1 + d2 + 2, PathStops)
  IN IF d1 >= 1 /\ Has(url, a + d1, "/") /\ d2 >= 1
        /\ Has(url, a + d1 + 1 + d2, "/") /\ r >= 1
     THEN <<a, a + d1 + d2 + 1 + r>> ELSE NoMatch

\* [^\/]+\/fulltext\/(S[\d\-X\(\)]+)
cellId(url, a) ==
  LET low == toLowerCase(url)
      n   == RunNotIn(url, a, {"/"})
      b   == a + n + Len("/fulltext/")
      r   == RunIn(low, b + 1, Digits \cup {"-", "x", "(", ")"})
  IN IF n >= 1 /\ Has(low, a + n, "/fulltext/") /\ Has(low, b, "s") /\ r >= 1
     THEN <<b, b + r>> ELSE NoMatch

\* (10\.\d+\/[^\/\?\s]+)
publisherDoi(url, a) == prefixedDoi(url, a, 1, PathStops)

\* (?:abs\/|full\/)?(10\.\d+\/[^\/\?\s]+)
publisherDoiPath(url, a) == optionalAbsFull(url, a, publisherDoi)

\* [^\/]+\/article\/(\d+\/\d+\/\d+)
oupId(url, a) ==
  LET low == toLowerCase(url)
      n   == RunNotIn(url, a, {"/"})
      b   == a + n + Len("/article/")
      d1  == RunIn(url, b, Digits)
      d2  == RunIn(url, b + d1 + 1, Digits)
      d3  == RunIn(url, b + d1 + d2 + 2, Digits)
  IN IF n >= 1 /\ Has(low, a + n, "/article/") /\ d1 >= 1 /\ Has(url, b + d1, "/")
        /\ d2 >= 1 /\ Has(url, b + d1 + 1 + d2, "/") /\ d3 >= 1
     THEN <<b, b + d1 + d2 + d3 + 1>> ELSE NoMatch

\* (?:abs\/)?pii\/(S\d+)
piiId(url, a) ==
  LET low == toLowerCase(url)
      b   == (IF Has(low, a, "abs/") THEN a + 4 ELSE a) + Len("pii/")
      d   == RunIn(url, b + 1, Digits)
  IN IF Has(low, b - Len("pii/"), "pii/") /\ Has(low, b, "s") /\ d >= 1
     THEN <<b, b + d>> ELSE NoMatch

\* match[1].replace(/\/$/, '')
withoutTrailingSlash(s) ==
  IF Len(s) > 0 /\ Char(s, Len(s)) = "/" THEN SubSeq(s, 1, Len(s) - 1) ELSE s

Captured(url, match) == SubSeq(url, match[1], match[2])

\* null and '' alike: extractDOI's only caller tests its result with !doi
NoDoi == ""

noDOI(url) == NoDoi

doiPatterns(url) ==
  << FirstMatch(url, "doi.org/", lazyToQuery),
     FirstMatch(url, "doi.org/", greedyToEnd),
     FirstMatch(url, "/doi/", doiPath),
     FirstMatch(url, "/", bareDoi) >>

publisherPatterns(url) ==
  << [match |-> FirstMatch(url, "nature.com/articles/", natureId), prefix |-> "10.1038/"],
     [match |-> FirstMatch(url, "pnas.org/content/", pnasId), prefix |-> "10.1073/pnas."],
     [match |-> FirstMatch(url, "cell.com/", cellId), prefix |-> "10.1016/j.cell."],
     [match |-> FirstMatch(url, "springer.com/article/", publisherDoi), prefix |-> ""],
     [match |-> FirstMatch(url, "wiley.com/doi/", publisherDoiPath), prefix |-> ""],
     [match |-> FirstMatch(url, "tandfonline.com/doi/", publisherDoiPath), prefix |-> ""],
     [match |-> FirstMatch(url, "sagepub.com/doi/", publisherDoiPath), prefix |-> ""],
     [match |-> FirstMatch(url, "academic.oup.com/", oupId), prefix |-> "10.1093/"],
     [match |-> FirstMatch(url, "sciencedirect.com/science/article/", piiId),
      prefix |-> "10.1016/"] >>

extractDOI(url) ==
  LET direct    == doiPatterns(url)
      publisher == publisherPatterns(url)
      hits      == {i \in 1..Len(direct) : direct[i] # NoMatch}
      pubHits   == {i \in 1..Len(publisher) : publisher[i].match # NoMatch}
  IN IF hits # {}
     THEN withoutTrailingSlash(Captured(url, direct[Least(hits)]))
     ELSE IF pubHits # {}
     THEN publisher[Least(pubHits)].prefix
            \o Captured(url, publisher[Least(pubHits)].match)
     ELSE NoDoi


\* getAPACitation(url), one action per awaited call.  probe.out holds the
\* position in the function (pc), the DOI in hand, the external calls made so
\* far in their order, and the citation returned (NoApa for null).
NoApa == ""

PageCall     == "fetchDOIFromPage"
CrossRefCall == "fetchCrossRefMetadata"
ZoteroCall   == "fetchZoteroMetadata"

DoiUrl == "https://doi.org/10.1000/xyz"

UrlInputs ==
  { DoiUrl, "https://doi.org/10.1000/xyz?x=1", "https://doi.org/10.1000/xyz/",
    "https://doi.org/", "https://doi.org//", "https://DOI.ORG/10.1000/xyz",
    "https://www.science.org/doi/10.1126/science.ado1006",
    "https://x.org/doi/abs/10.1/a", "https://x.org/doi/full/10.1/a?b",
    "https://x.org/a/10.1234/abc#s", "https://x.org/a/10.123/abc",
    "https://www.nature.com/articles/s41586-024-08375-z",
    "https://www.nature.com/articles/d41586",
    "https://www.pnas.org/content/1/2/3",
    "https://www.cell.com/cell/fulltext/S0092-8674(20)1-X",
    "https://link.springer.com/article/10.1/x",
    "https://onlinelibrary.wiley.com/doi/10.1/x",
    "https://academic.oup.com/j/article/1/2/3",
    "https://www.sciencedirect.com/science/article/abs/pii/S12",
    "https://example.com/post", "https://example.com/" }

\* what the scan of the fetched page yields: NoDoi when the fetch fails or no
\* pattern matches the page
PageDois == {NoDoi, "10.5555/page"}

Resolving(url, pc, doi, calls, apa) ==
  [fn |-> "getAPACitation", arg |-> <<url>>,
   out |-> [pc |-> pc, doi |-> doi, calls |-> calls, apa |-> apa]]

InitResolver ==
  /\ articles = <<>>
  /\ activeOperations = [k \in {} |-> 0]
  /\ now = StartMs
  /\ tasks = <<>>
  /\ origin = <<>>
  /\ translateCalls = <<>>
  /\ responses = <<>>
  /\ deeplKey = TRUE
  /\ nfail = 0
  /\ leaked = {}
  /\ reports = <<>>
  /\ coverOperations = [k \in {} |-> 0]
  /\ uploads = 0
  /\ tmpFiles = {}
  /\ escaped = 0
  /\ evicted = {}
  /\ \E url \in UrlInputs : probe = Resolving(url, "extractDOI", NoDoi, <<>>, NoApa)
  /\ download = NoDownload
  /\ citations = NoCitations

ResolverAt(pc) == probe.fn = "getAPACitation" /\ probe.out.pc = pc

\* let doi = extractDOI(url); if (!doi) ... fetchDOIFromPage, else CrossRef
GetAPACitation ==
  /\ ResolverAt("extractDOI")
  /\ LET url == probe.arg[1]
         doi == extractDOI(url)
     IN probe' = Resolving(url, IF doi = NoDoi THEN PageCall ELSE CrossRefCall,
                           doi, probe.out.calls, NoApa)
  /\ UNCHANGED <<download, idle, activeOperations, coverOperations, now>>

\* doi = await fetchDOIFromPage(url); if (doi) ... CrossRef, else Zotero
FetchDOIFromPage(found) ==
  /\ ResolverAt(PageCall)
  /\ probe' = Resolving(probe.arg[1],
                        IF found = NoDoi THEN ZoteroCall ELSE CrossRefCall,
                        found, Append(probe.out.calls, PageCall), NoApa)
  /\ UNCHANGED <<download, idle, activeOperations, coverOperations, now>>

\* crossRefData = await fetchCrossRefMetadata(doi); return the formatted
\* citation when there is data, else go on to Zotero
FetchCrossRefMetadata(ok) ==
  /\ ResolverAt(CrossRefCall)
  /\ probe' = Resolving(probe.arg[1], IF ok THEN "return" ELSE ZoteroCall,
                        probe.out.doi, Append(probe.out.calls, CrossRefCall),
                        IF ok THEN Formatted ELSE NoApa)
  /\ UNCHANGED <<download, idle, activeOperations, coverOperations, now>>

\* zoteroResult = await fetchZoteroMetadata(url); return it, or null
FetchZoteroMetadata(ok) ==
  /\ ResolverAt(ZoteroCall)
  /\ probe' = Resolving(probe.arg[1], "return", probe.out.doi,
                        Append(probe.out.calls, ZoteroCall),
                        IF ok THEN Formatted ELSE NoApa)
  /\ UNCHANGED <<download, idle, activeOperations, coverOperations, now>>

NextResolver ==
  \/ GetAPACitation
  \/ \E found \in PageDois : FetchDOIFromPage(found)
  \/ \E ok \in BOOLEAN : FetchCrossRefMetadata(ok)
  \/ \E ok \in BOOLEAN : FetchZoteroMetadata(ok)

SpecResolver == InitResolver /\ [][NextResolver]_vars

ResolutionOrders ==
  { <<>>, <<PageCall>>, <<PageCall, CrossRefCall>>, <<PageCall, ZoteroCall>>,
    <<PageCall, CrossRefCall, ZoteroCall>>, <<CrossRefCall>>,
    <<CrossRefCall, ZoteroCall>> }

Made(call) == \E i \in 1..Len(probe.out.calls) : probe.out.calls[i] = call

\* C31: getAPACitation makes its external calls in the fixed order page scan,
\* CrossRef, Zotero; the page is fetched exactly when the URL's shape gives no
\* DOI, CrossRef is asked only with a DOI in hand, Zotero only after CrossRef
\* gave nothing or no DOI was found, and https://doi.org/10.1000/xyz yields the
\* DOI 10.1000/xyz without a page fetch.
C31_ResolutionOrder ==
  probe.fn = "getAPACitation" =>
    LET url == probe.arg[1]
        out == probe.out
    IN /\ out.calls \in ResolutionOrders
       /\ out.pc # "extractDOI" =>
            /\ extractDOI(url) # NoDoi => ~Made(PageCall) /\ out.doi = extractDOI(url)
            /\ extractDOI(url) = NoDoi /\ out.pc # PageCall => out.calls[1] = PageCall
            /\ url = DoiUrl => out.doi = "10.1000/xyz" /\ ~Made(PageCall)
       /\ Made(CrossRefCall) => out.doi # NoDoi
       /\ Made(ZoteroCall) =>
            /\ out.calls[Len(out.calls)] = ZoteroCall
            /\ out.doi # NoDoi => Made(CrossRefCall)
       /\ out.pc = "return" /\ ~Made(ZoteroCall) => out.apa = Formatted

C31_Witness ==
  /\ probe.fn = "getAPACitation"
  /\ probe.arg[1] = DoiUrl
  /\ probe.out = [pc |-> "return", doi |-> "10.1000/xyz",
                  calls |-> <<CrossRefCall, ZoteroCall>>, apa |-> Formatted]


\* ---------------------------------------------------------------------------
\* generateAPA requests one after the other on one article
\* ---------------------------------------------------------------------------
MaxUrls        == 2   \* url entries of the article's reference blocks
MaxInvocations == 2   \* generateAPA requests per behaviour

ApaEntries ==
  { UrlItem(TRUE, ""), UrlItem(TRUE, Placeholder), UrlItem(TRUE, Formatted),
    UrlItem(TRUE, Manual), UrlItem(FALSE, ""), UrlItem(FALSE, Formatted) }

ApaInputs == UNION {[1..n -> ApaEntries] : n \in 1..MaxUrls}

InitApa ==
  /\ articles = <<EnRow>>
  /\ activeOperations = [k \in {} |-> 0]
  /\ now = StartMs
  /\ tasks = <<>>
  /\ origin = <<>>
  /\ translateCalls = <<>>
  /\ responses = <<>>
  /\ deeplKey \in BOOLEAN
  /\ nfail = 0
  /\ leaked = {}
  /\ reports = <<>>
  /\ coverOperations = [k \in {} |-> 0]
  /\ uploads = 0
  /\ tmpFiles = {}
  /\ escaped = 0
  /\ evicted = {}
  /\ probe = NoProbe
  /\ download = NoDownload
  /\ \E urls \in ApaInputs : citations = [d \in DocumentIds |-> urls]

\* a request arrives when the one before it has been answered
NextApa ==
  \/ /\ Quiescent
     /\ Len(tasks) < MaxInvocations
     /\ HttpApa("docA")
  \/ \E t \in 1..Len(tasks) : ApaStep(t)
  \/ \E t \in 1..Len(tasks) : LifecycleStep(t)

SpecApa == InitApa /\ [][NextApa]_vars

ApaFrames(t) == {i \in 1..Len(tasks[t]) : tasks[t][i].fn \in APA}

\* C32: one generateAPA invocation issues at most one storage update; the
\* update is issued when the loops over all entries are over, it carries every
\* entry the invocation changed, every entry with a link has a citation or the
\* placeholder by then, and an invocation that found no entry to process issues
\* no update.
C32_OneUpdateAfterAllEntries ==
  \A t \in 1..Len(tasks) : \A i \in ApaFrames(t) :
    LET f == tasks[t][i]
    IN /\ f.updates <= 1
       /\ f.updates = 1 =>
            /\ f.pc = "respond"
            /\ f.j = 0
            /\ f.updatedCount + f.errorCount >= 1
            /\ citations[f.doc] = f.urls
            /\ \A k \in 1..Len(f.urls) : f.urls[k].link => f.urls[k].apa # ""
       /\ f.updates = 0 /\ f.pc \in {"cite", "save"} =>
            /\ NextUrl(citations[f.doc], 1) # 0
            /\ \A k \in 1..Len(f.urls) :
                 f.urls[k] # citations[f.doc][k] => needsProcessing(citations[f.doc][k])
       /\ f.pc = "respond" => f.updates = 1

C32_Witness ==
  \E t \in 1..Len(tasks) : \E i \in ApaFrames(t) :
    /\ tasks[t][i].updates = 1
    /\ tasks[t][i].updatedCount = 1
    /\ tasks[t][i].errorCount = 1
    /\ citations["docA"] = <<UrlItem(TRUE, Formatted), UrlItem(TRUE, Placeholder)>>


Open(urlItem) == urlItem.link /\ (urlItem.apa = "" \/ urlItem.apa = Placeholder)

\* C33: generateAPA changes the stored apa only of entries that have a link and
\* either no apa or an apa that is the placeholder; the apa of every other
\* entry stays as it is in every step.
C33_OnlyOpenEntriesChange ==
  [][\A d \in DocumentIds : \A k \in 1..Len(citations[d]) :
       ~Open(citations[d][k]) => citations'[d][k].apa = citations[d][k].apa]_vars


\* ---------------------------------------------------------------------------
\* The source locale of a mutation event: triggerTranslation of the registered
\* lifecycle (lifecycles.js) and handleArticleTranslation of the older
\* lifecycle file (src/unnamed/part_004), as functions of the event and of what
\* findOne({ where: { id } }) returns.  '' stands for a missing locale or
\* documentId, NoRow for null.
\* ---------------------------------------------------------------------------
NoRow == [found |-> FALSE, locale |-> "", documentId |-> ""]

StoredRow(locale, documentId) ==
  [found |-> TRUE, locale |-> locale, documentId |-> documentId]

Skipped == [skipped |-> TRUE, sourceLocale |-> "", documentId |-> ""]

Resolved(sourceLocale, documentId) ==
  [skipped |-> FALSE, sourceLocale |-> sourceLocale, documentId |-> documentId]

\* a || b on strings
orElse(a, b) == IF a # "" THEN a ELSE b

\* lifecycles.js 135-152: dbArticle = findOne(...); sourceLocale = dbArticle.locale
triggerSource(event) ==
  LET dbArticle == event.stored
  IN IF ~dbArticle.found THEN Skipped
     ELSE IF dbArticle.locale = "" \/ dbArticle.documentId = "" THEN Skipped
     ELSE Resolved(dbArticle.locale, dbArticle.documentId)

\* part_004 147-178: params?.locale || params?.data?.locale || article?.locale,
\* then the stored locale, then the documentId of the result or of the row
legacySource(event) ==
  LET dbArticle   == event.stored
      initial     == orElse(event.params.locale,
                            orElse(event.params.data.locale, event.result.locale))
      sourceLocale == IF initial = "" /\ dbArticle.locale # ""
                      THEN dbArticle.locale ELSE initial
      documentId  == orElse(event.result.documentId, dbArticle.documentId)
  IN IF sourceLocale = "" THEN Skipped
     ELSE IF documentId = "" THEN Skipped
     ELSE Resolved(sourceLocale, documentId)

EventLocales == {"", "en", "zh-Hant-HK", "fr"}

\* the result of an event is the row as written; the fresh read finds that row,
\* or nothing when the row was deleted in between; the parameters name the
\* locale of the row or none
Events ==
  { [params |-> [locale |-> pl, data |-> [locale |-> dl]],
     result |-> [id |-> 1, locale |-> l, documentId |-> d],
     stored |-> IF found THEN StoredRow(l, d) ELSE NoRow] :
      l \in EventLocales, d \in {"", "docA"}, pl \in EventLocales,
      dl \in EventLocales, found \in BOOLEAN }

EventInputs ==
  {e \in Events : /\ e.params.locale \in {"", e.result.locale}
                  /\ e.params.data.locale \in {"", e.result.locale}}

InitSource ==
  /\ articles = <<>>
  /\ activeOperations = [k \in {} |-> 0]
  /\ now = StartMs
  /\ tasks = <<>>
  /\ origin = <<>>
  /\ translateCalls = <<>>
  /\ responses = <<>>
  /\ deeplKey = TRUE
  /\ nfail = 0
  /\ leaked = {}
  /\ reports = <<>>
  /\ coverOperations = [k \in {} |-> 0]
  /\ uploads = 0
  /\ tmpFiles = {}
  /\ escaped = 0
  /\ evicted = {}
  /\ \E event \in EventInputs : probe = [fn |-> "event", arg |-> <<event>>, out |-> <<>>]
  /\ download = NoDownload
  /\ citations = NoCitations

\* the registered lifecycle resolves the event
TriggerSource ==
  /\ probe.fn = "event"
  /\ probe' = [fn |-> "triggerTranslation", arg |-> probe.arg,
               out |-> triggerSource(probe.arg[1])]
  /\ UNCHANGED <<download, idle, activeOperations, coverOperations, now>>

\* the older lifecycle file resolves the event
LegacySource ==
  /\ probe.fn = "event"
  /\ probe' = [fn |-> "handleArticleTranslation", arg |-> probe.arg,
               out |-> legacySource(probe.arg[1])]
  /\ UNCHANGED <<download, idle, activeOperations, coverOperations, now>>

NextSource == TriggerSource \/ LegacySource

SpecSource == InitSource /\ [][NextSource]_vars

\* the first available of the event parameters, the result's locale, the
\* stored locale
FirstLocale(event) ==
  orElse(event.params.locale,
         orElse(event.params.data.locale,
                orElse(event.result.locale, event.stored.locale)))

FirstDocumentId(event) == orElse(event.result.documentId, event.stored.documentId)

SourceLocaleInOrder(fn) ==
  probe.fn = fn =>
    LET event == probe.arg[1]
    IN /\ FirstLocale(event) = "" => probe.out.skipped
       /\ FirstLocale(event) # "" /\ FirstDocumentId(event) # "" =>
            /\ ~probe.out.skipped
            /\ probe.out.sourceLocale = FirstLocale(event)

\* C34: the source locale that the registered lifecycle derives from a mutation
\* event is the first available of the event parameters, the result record's
\* locale and the freshly read record's locale, and the run is skipped when
\* none of them yields a locale.
C34_SourceLocaleOrder == SourceLocaleInOrder("triggerTranslation")

LegacySourceLocaleOrder == SourceLocaleInOrder("handleArticleTranslation")


\* task t is inside the afterUpdate event fired by a handler's slug write: the
\* handler that made the write waits for it (pc "trigger" is where it goes on
\* when the write returns), and the event's handler is the frame above it
InSlugFixEvent(t) ==
  \E i \in 1..(Len(tasks[t]) - 1) :
    /\ tasks[t][i].fn \in Handlers
    /\ tasks[t][i].pc = "trigger"
    /\ tasks[t][i + 1].fn = "afterUpdate"

\* C35: while the afterUpdate event fired by a handler's slug write
\* (slug := String(id)) is being handled, no translate call is made.
C35_SlugFixStartsNoTranslation ==
  [][\A t \in 1..Len(tasks) :
       InSlugFixEvent(t) => translateCalls'[t] = translateCalls[t]]_vars


\* the afterUpdate event on top of task t arrives while the guard entry
\* update-<id> of an earlier run is in the registry and younger than 60 s
ArrivesInFlight(t) ==
  /\ Running(t)
  /\ Top(t).fn = "afterUpdate"
  /\ Top(t).pc = "entry"
  /\ Top(t).id # 0
  /\ operationKey(Top(t)) \in DOMAIN activeOperations
  /\ activeOperations[operationKey(Top(t))] # 0
  /\ now - activeOperations[operationKey(Top(t))] < ArticleTtlMs

\* C36: the step that handles an afterUpdate event arriving while an earlier
\* afterUpdate run for the same article id is in flight only returns: the
\* handler's frame is gone, no row and no guard entry has changed, no translate
\* call was made, and no task or frame was added that would replay the event.
C36_SecondUpdateDropped ==
  [][\A t \in 1..Len(tasks) :
       ArrivesInFlight(t) /\ tasks'[t] # tasks[t] =>
         /\ tasks'[t] = Pop(tasks[t])
         /\ Len(tasks') = Len(tasks)
         /\ articles' = articles
         /\ translateCalls' = translateCalls
         /\ activeOperations' = activeOperations]_vars

C36_Witness ==
  \E t \in 1..Len(tasks) :
    /\ ArrivesInFlight(t)
    /\ Len(tasks[t]) >= 4
    /\ tasks[t][1].fn = "afterUpdate"
    /\ tasks[t][1].id = Top(t).id


ProviderTargets == {"ZH-HANT", "ZH-HANS", "EN-US", "EN-GB"}
ProviderSources == {"EN", "ZH"}

\* translateText was applied to a text that is not blank, with the key set and
\* a provider that answers: the provider was called with a target code
CodeChosen ==
  /\ probe.fn = "translateText"
  /\ probe.arg[4] /\ probe.arg[5]
  /\ ~isBlank(probe.arg[1])

\* the target code the provider was called with
ChosenCode == probe.out.out[Len(probe.out.out)]

\* C37 as stated: translateText maps every tag to a provider code without
\* failing, every target tag starting with 'zh' to ZH-HANT and every target
\* tag starting with 'en' to an English code.
C37_ZhPrefixIsTraditional ==
  CodeChosen =>
    /\ ~probe.out.threw
    /\ ChosenCode \in ProviderTargets
    /\ SourceLangCode(probe.arg[2]) \in ProviderSources
    /\ startsWith(probe.arg[3], "zh") => ChosenCode = "ZH-HANT"
    /\ startsWith(probe.arg[3], "en") => ChosenCode \in {"EN-US", "EN-GB"}

\* C37 amended: translateText maps every tag to a provider code without
\* failing; the target tag 'zh-Hans' maps to ZH-HANS, every other target tag
\* starting with 'zh' in any letter case to ZH-HANT, 'en-GB' to EN-GB and every
\* other tag, in a table or not, to EN-US.
C37_TagsMapToCodes ==
  CodeChosen =>
    LET tag == probe.arg[3]
        zh  == startsWith(toLowerCase(tag), "zh")
    IN /\ ~probe.out.threw
       /\ ChosenCode \in ProviderTargets
       /\ SourceLangCode(probe.arg[2]) \in ProviderSources
       /\ tag = "zh-Hans" => ChosenCode = "ZH-HANS"
       /\ zh /\ tag # "zh-Hans" => ChosenCode = "ZH-HANT"
       /\ tag = "en-GB" => ChosenCode = "EN-GB"
       /\ ~zh /\ tag # "en-GB" => ChosenCode = "EN-US"
       /\ probe.out.out = Append(probe.arg[1], ChosenCode)

C37_Witness ==
  /\ CodeChosen
  /\ probe.arg[3] = "zh-Hans-CN"
  /\ probe.arg[2] = "ZH-TW"
  /\ probe.out = Returned(<<"a", "ZH-HANT">>, 1)


\* task t is the cascade of an external edit: the edit's write is done and
\* the events it fired are being handled
InCascadeOfEdit(t) == Running(t) /\ origin[t].kind = "update"

\* C38: no step of the cascade started by an external edit of a variant changes
\* that variant's title, description or cover_text.
C38_EditedTextIsKept ==
  [][\A t \in 1..Len(tasks) :
       InCascadeOfEdit(t) =>
         /\ articles'[origin[t].id].title = articles[origin[t].id].title
         /\ articles'[origin[t].id].description = articles[origin[t].id].description
         /\ articles'[origin[t].id].cover_text = articles[origin[t].id].cover_text]_vars


\* run t of extractAndSetCover is in flight and the registry entry of its key
\* is the one it set (the entry holds the time at which t started)
OwnsEntry(t) ==
  /\ Running(t)
  /\ Top(t).fn \in RUN
  /\ Top(t).pc # "start"
  /\ coverKey(Top(t).id) \in DOMAIN coverOperations
  /\ coverOperations[coverKey(Top(t).id)] = Top(t).at

\* run s leaves through its finally block in this step
Releases(s) ==
  /\ Running(s)
  /\ Top(s).fn \in RUN
  /\ Top(s).pc # "start"
  /\ tasks'[s] = <<>>

\* C39: the step in which a run releases its key leaves in place the entry
\* that another run, still in flight, has set for the same key.
C39_ReleaseKeepsOtherRunsEntry ==
  [][\A s \in 1..Len(tasks) : \A t \in 1..Len(tasks) :
       s # t /\ Releases(s) /\ OwnsEntry(t) =>
         /\ coverKey(Top(t).id) \in DOMAIN coverOperations'
         /\ coverOperations'[coverKey(Top(t).id)] = Top(t).at]_vars


\* the controller of the explicit trigger, task t, makes its write to the
\* target variant in this step
TriggerWrites(t) ==
  /\ Running(t)
  /\ Top(t).fn \in CTL
  /\ Top(t).pc = "write"
  /\ articles' # articles

\* C40: the description that the explicit translate trigger writes to the
\* target variant is the translated description when that has 80 characters or
\* fewer, and its first 77 characters followed by '...' when it has more; a
\* written description is never longer than 80 characters, and for a source
\* without description none is written (an existing target keeps its own, a new
\* target gets the empty one).
C40_DescriptionAtMost80 ==
  [][\A t \in 1..Len(tasks) :
       TriggerWrites(t) =>
         LET f       == Top(t)
             k       == IF f.tid # 0 THEN f.tid ELSE FindVariant(articles', f.doc, f.tgt)
             source  == articles[f.id].description
             d       == InLocale(source, f.tgt)
             written == articles'[k].description
         IN /\ k # 0
            /\ source = NoText =>
                 written = IF f.tid # 0 THEN articles[k].description ELSE NoText
            /\ source # NoText /\ Len(d) <= 80 => written = d
            /\ source # NoText /\ Len(d) > 80 =>
                 /\ written = SubSeq(d, 1, 77) \o <<".", ".", ".">>
                 /\ Len(written) = 80
            /\ source # NoText => Len(written) <= 80]_vars

C40_Witness ==
  /\ \E t \in 1..Len(tasks) :
       /\ origin[t].kind = "translate"
       /\ Running(t)
       /\ tasks[t][1].fn \in CTL
       /\ tasks[t][1].pc \in {"slug", "source", "respond"}
  /\ Len(articles) = 2
  /\ articles[1].description = XText(80)
  /\ articles[2].description = XText(77) \o <<".", ".", ".">>

====
